---- MODULE Spec2Model ----
(***************************************************************************)
(* Saito node core: the Routing, Consensus and Mining event processors,    *)
(* the shared read/write locks and the bounded channels between them.      *)
(*                                                                         *)
(* The specifications of this module:                                      *)
(*   Spec      the Routing processor, one action per network event, each   *)
(*             action the whole handler (routing_event_processor.rs);      *)
(*   SpecLocks the three processors interleaved at their suspension points *)
(*             (lock acquisition, channel send, I/O call);                 *)
(*   SpecSync  two nodes running the sync protocol after a handshake;      *)
(*   SpecPipe  fetched blocks from Routing to Consensus over the channel;  *)
(*   SpecFetch block hashes announced, fetched and applied;                *)
(*   SpecConsensus  the Consensus processor, one action per handler        *)
(*             (consensus_event_processor.rs);                             *)
(*   SpecProduce    block production, transaction by transaction;          *)
(*   SpecMining     the Mining processor, one action per handler           *)
(*             (miner_controller.rs);                                      *)
(*   SpecTicket     GoldenTicket::is_valid_solution (golden_ticket.rs);    *)
(*   SpecCodec      the byte layouts of GoldenTicket and Wallet;           *)
(*   SpecWallet     the Wallet's slip lists (wallet.rs);                   *)
(*   SpecSpend      the Wallet selecting slips to spend (wallet.rs);       *)
(*   SpecDriver     the WASM driver's tick (saitowasm.rs).                 *)
(***************************************************************************)
EXTENDS Integers, Sequences, FiniteSets, TLC

VARIABLES
    \* ---- Routing processor, handler level (Spec) ----
    peers,          \* network.peers.index_to_peers
    tip,            \* blockchain: id of the latest longest-chain block
    panicked,       \* the Routing task has panicked
    panicCause,     \* which construct panicked
    lastEvent,      \* the event handled by the last step
    out,            \* the I/O calls issued by the last step, in order
    \* ---- processors at their suspension points (SpecLocks) ----
    prog,           \* per processor: the suspension points left in its handler
    held,           \* per processor: the lock guards it holds, in acquisition order
    chans,          \* per channel: the queued events
    armed,          \* MinerController.new_miner_event_received
    \* ---- two-node sync scenario (SpecSync) ----
    sy,
    \* ---- fetched blocks from Routing to Consensus (SpecPipe) ----
    pipe,
    \* ---- Consensus processor, handler level (SpecConsensus) ----
    con,
    \* ---- Mining processor, handler level (SpecMining) ----
    mi,
    \* ---- GoldenTicket::is_valid_solution (SpecTicket) ----
    gt,
    \* ---- byte layouts of the golden ticket and the wallet (SpecCodec) ----
    cod,
    \* ---- Wallet slips (SpecWallet, SpecSpend) ----
    wal,
    \* ---- the WASM driver pumping the three processors (SpecDriver) ----
    drv

routingVars == <<peers, tip, panicked, panicCause, lastEvent, out>>
lockVars == <<prog, held, chans, armed>>
syncVars == <<sy>>
dataVars == <<cod, wal, drv>>
laterVars == <<pipe, con, mi, gt, cod, wal, drv>>
vars == <<peers, tip, panicked, panicCause, lastEvent, out,
          prog, held, chans, armed, sy, pipe, con, mi, gt, cod, wal, drv>>

(***************************************************************************)
(* Bounds of the model.                                                    *)
(***************************************************************************)
MaxPeers == 2       \* peer indices 1..MaxPeers
MaxTip == 3         \* block ids 1..MaxTip

PeerIdx == 1..MaxPeers
BlockIds == 1..MaxTip

(***************************************************************************)
(* Data.                                                                   *)
(***************************************************************************)
\* Option<PeerConfig>::None; StaticCfgs are the configured static peers
NoCfg == 0
StaticCfgs == {1}
\* [0; 32], the hash of an empty blockring slot
ZeroHash == 0

\* Message wire tags (first byte of the buffer)
TagHandshakeChallenge == 1
TagHandshakeResponse == 2
TagHandshakeCompletion == 3
TagApplicationMessage == 4
TagBlock == 5
TagTransaction == 6
TagBlockchainRequest == 7
TagBlockHeaderHash == 8
MessageTags == TagHandshakeChallenge..TagBlockHeaderHash

\* Peer::new(peer_index): no handshake done, no static config
AbsentPeer == [present |-> FALSE, handshake_done |-> FALSE, cfg |-> NoCfg]
NewPeer == [present |-> TRUE, handshake_done |-> FALSE, cfg |-> NoCfg]

\* blockring.get_longest_chain_block_hash_by_block_id(i): the block with id i on
\* the longest chain has hash i; an empty slot reads as the zero hash
LongestChainHashAt(t, i) == IF i >= 1 /\ i <= t THEN i ELSE ZeroHash
\* blockchain.is_block_indexed(hash)
IsBlockIndexed(t, h) == h >= 1 /\ h <= t
\* blockchain.get_latest_block_id / get_latest_block_hash / get_fork_id
GetLatestBlockId(t) == t
GetLatestBlockHash(t) == LongestChainHashAt(t, t)
GetForkId(t) == <<t>>
\* blockchain.generate_last_shared_ancestor(peer_latest_block_id, fork_id): the
\* set of ids it may return, a lower bound of the last common block, 0 on mismatch
LastSharedAncestors(t, peerLatest) == {a \in 0..t : a <= peerLatest}

(***************************************************************************)
(* I/O calls, as they are logged in out: <<call, peer, tag, payload>>.     *)
(***************************************************************************)
SendMessage(p, tag, payload) == <<"send_message", p, tag, payload>>
ConnectToPeer(cfg) == <<"connect_to_peer", cfg, NoCfg, <<>>>>
FetchBlockFromPeer(h, p) == <<"fetch_block_from_peer", p, NoCfg, <<h>>>>

\* The calls issued when the failAt-th one returns Err (0: none fails): the
\* caller unwraps each result, so nothing is issued after the failing call.
Issued(calls, failAt) == IF failAt = 0 THEN calls ELSE SubSeq(calls, 1, failAt)
FailPoints(calls) == 0..Len(calls)

\* The event a step handled: kind, peer index, message tag, and its arguments
\* (valid: the signature verifies; a, b: numeric arguments of the event)
Event(kind, p, tag, valid, a, b) ==
    [kind |-> kind, peer |-> p, tag |-> tag, valid |-> valid, a |-> a, b |-> b]
NoEvent == Event("none", NoCfg, NoCfg, FALSE, NoCfg, NoCfg)

(***************************************************************************)
(* Peer (its code is outside src/): the handshake methods, each returning  *)
(* the peer after the call, the messages it sends and its Result.          *)
(***************************************************************************)
\* peer.initiate_handshake(io, wallet, configs): send a HandshakeChallenge
PeerInitiateHandshake(p, rec) ==
    [ok |-> TRUE, peer |-> rec,
     calls |-> <<SendMessage(p, TagHandshakeChallenge, <<>>)>>]
\* peer.handle_handshake_challenge(challenge, io, wallet, configs): sign the
\* challenge and reply with a HandshakeResponse
PeerHandleHandshakeChallenge(p, rec) ==
    [ok |-> TRUE, peer |-> rec,
     calls |-> <<SendMessage(p, TagHandshakeResponse, <<>>)>>]
\* peer.handle_handshake_response(response, io, wallet): verify the signature;
\* if valid send a HandshakeCompletion and mark handshake_done, else Err
PeerHandleHandshakeResponse(p, rec, valid) ==
    IF valid
    THEN [ok |-> TRUE, peer |-> [rec EXCEPT !.handshake_done = TRUE],
          calls |-> <<SendMessage(p, TagHandshakeCompletion, <<>>)>>]
    ELSE [ok |-> FALSE, peer |-> rec, calls |-> <<>>]
\* peer.handle_handshake_completion(response, io): verify and mark complete
PeerHandleHandshakeCompletion(p, rec, valid) ==
    IF valid
    THEN [ok |-> TRUE, peer |-> [rec EXCEPT !.handshake_done = TRUE], calls |-> <<>>]
    ELSE [ok |-> FALSE, peer |-> rec, calls |-> <<>>]

(***************************************************************************)
(* RoutingEventProcessor: helpers.                                         *)
(***************************************************************************)
\* request_blockchain_from_peer: a BlockchainRequest snapshot of the tip
RequestBlockchainFromPeer(p, t) ==
    <<SendMessage(p, TagBlockchainRequest,
                  <<GetLatestBlockId(t), GetLatestBlockHash(t), GetForkId(t)>>)>>

\* SyncAfterHandshake without its test of handshake_done
SyncAfterHandshake_unconditional(p, rec, t) == RequestBlockchainFromPeer(p, t)

\* `if peer.handshake_done { self.request_blockchain_from_peer(peer_index) }`
SyncAfterHandshake(p, rec, t) ==
    IF rec.handshake_done THEN RequestBlockchainFromPeer(p, t) ELSE <<>>

\* the loop body of process_incoming_blockchain_request for ids i..t: a
\* BlockHeaderHash per id, ids whose slot reads as the zero hash skipped
RECURSIVE HeaderHashesFrom(_, _, _)
HeaderHashesFrom(p, i, t) ==
    IF i > t THEN <<>>
    ELSE (IF LongestChainHashAt(t, i) = ZeroHash THEN <<>>
          ELSE <<SendMessage(p, TagBlockHeaderHash, <<LongestChainHashAt(t, i)>>)>>)
         \o HeaderHashesFrom(p, i + 1, t)

\* `for i in last_shared_ancestor..(blockring.get_latest_block_id() + 1)`
BlockchainRequestAnswer(p, lsa, t) == HeaderHashesFrom(p, lsa, t)

\* BlockHashFetches with the test of block_exists inverted
BlockHashFetches_inverted(p, h, t) ==
    IF IsBlockIndexed(t, h) THEN <<FetchBlockFromPeer(h, p)>> ELSE <<>>

\* process_incoming_block_hash: fetch the block unless it is indexed
BlockHashFetches(p, h, t) ==
    IF ~IsBlockIndexed(t, h) THEN <<FetchBlockFromPeer(h, p)>> ELSE <<>>

\* NewPeerInitiates with the test inverted: initiate on outgoing connections
NewPeerInitiates_outgoing(cfg) == cfg # NoCfg

\* handle_new_peer: the handshake is initiated when no static config came
\* with the connection (an incoming connection)
NewPeerInitiates(cfg) == cfg = NoCfg

\* What a step of the Routing processor leaves behind.
RoutingStep(ev, newPeers, issued, cause) ==
    /\ lastEvent' = ev
    /\ peers' = newPeers
    /\ out' = issued
    /\ panicked' = (cause # "none")
    /\ panicCause' = cause

IoCause(failAt) == IF failAt = 0 THEN "none" ELSE "io_error"

(***************************************************************************)
(* RoutingEventProcessor::process_incoming_message, one operator per arm.   *)
(* failAt names the I/O call of the handler whose Result is Err (0: none).  *)
(***************************************************************************)
\* Message::HandshakeChallenge
OnHandshakeChallenge(p, failAt) ==
    LET ev == Event("IncomingNetworkMessage", p, TagHandshakeChallenge, FALSE, NoCfg, NoCfg)
        r == PeerHandleHandshakeChallenge(p, peers[p])
    IN  IF ~peers[p].present
        THEN failAt = 0 /\ RoutingStep(ev, peers, <<>>, "todo_unknown_peer")
        ELSE /\ failAt \in FailPoints(r.calls)
             /\ RoutingStep(ev, [peers EXCEPT ![p] = r.peer],
                            Issued(r.calls, failAt), IoCause(failAt))

\* Message::HandshakeResponse
OnHandshakeResponse(p, valid, failAt) ==
    LET ev == Event("IncomingNetworkMessage", p, TagHandshakeResponse, valid, NoCfg, NoCfg)
        r == PeerHandleHandshakeResponse(p, peers[p], valid)
        sync == SyncAfterHandshake(p, r.peer, tip)
        calls == r.calls \o sync
    IN  IF ~peers[p].present
        THEN failAt = 0 /\ RoutingStep(ev, peers, <<>>, "todo_unknown_peer")
        ELSE IF ~r.ok
        THEN failAt = 0 /\ RoutingStep(ev, peers, <<>>, "unwrap_handshake_response")
        ELSE /\ failAt \in FailPoints(calls)
             \* the completion is sent before the peer is marked: a failed
             \* send leaves the peer as it was
             /\ RoutingStep(ev,
                            IF failAt \in 1..Len(r.calls) THEN peers
                            ELSE [peers EXCEPT ![p] = r.peer],
                            Issued(calls, failAt), IoCause(failAt))

\* Message::HandshakeCompletion (the Result of the peer's method is dropped)
OnHandshakeCompletion(p, valid, failAt) ==
    LET ev == Event("IncomingNetworkMessage", p, TagHandshakeCompletion, valid, NoCfg, NoCfg)
        r == PeerHandleHandshakeCompletion(p, peers[p], valid)
        calls == r.calls \o SyncAfterHandshake(p, r.peer, tip)
    IN  IF ~peers[p].present
        THEN failAt = 0 /\ RoutingStep(ev, peers, <<>>, "todo_unknown_peer")
        ELSE /\ failAt \in FailPoints(calls)
             /\ RoutingStep(ev, [peers EXCEPT ![p] = r.peer],
                            Issued(calls, failAt), IoCause(failAt))

\* Message::ApplicationMessage, Message::Block, Message::Transaction
OnRelayMessage(p, tag) ==
    RoutingStep(Event("IncomingNetworkMessage", p, tag, FALSE, NoCfg, NoCfg),
                peers, <<>>, "none")

\* Message::BlockchainRequest -> process_incoming_blockchain_request
ProcessIncomingBlockchainRequest(p, latestId, lsa, failAt) ==
    LET ev == Event("IncomingNetworkMessage", p, TagBlockchainRequest, FALSE, latestId, lsa)
        calls == BlockchainRequestAnswer(p, lsa, tip)
    IN  /\ lsa \in LastSharedAncestors(tip, latestId)
        /\ failAt \in FailPoints(calls)
        /\ RoutingStep(ev, peers, Issued(calls, failAt), IoCause(failAt))

\* Message::BlockHeaderHash -> process_incoming_block_hash
ProcessIncomingBlockHash(p, h, failAt) ==
    LET ev == Event("IncomingNetworkMessage", p, TagBlockHeaderHash, FALSE, h, NoCfg)
        calls == BlockHashFetches(p, h, tip)
    IN  IF ~peers[p].present
        THEN failAt = 0 /\ RoutingStep(ev, peers, <<>>, "expect_peer_not_found")
        ELSE /\ failAt \in FailPoints(calls)
             /\ RoutingStep(ev, peers, Issued(calls, failAt), IoCause(failAt))

\* Message::deserialize(buffer): the first byte is the message tag
MessageDeserialize(tag) == [ok |-> tag \in MessageTags, tag |-> tag]
\* the buffers the network may deliver: every message tag and one unknown byte
BufferTags == MessageTags \cup {TagBlockHeaderHash + 1}

(***************************************************************************)
(* RoutingEventProcessor::handle_new_peer and handle_peer_disconnect.       *)
(***************************************************************************)
HandleNewPeer(cfg, idx, failAt) ==
    LET ev == Event("PeerConnectionResult", idx, NoCfg, TRUE, cfg, NoCfg)
        peer == [NewPeer EXCEPT !.cfg = cfg]
        r == PeerInitiateHandshake(idx, peer)
        calls == IF NewPeerInitiates(cfg) THEN r.calls ELSE <<>>
    IN  /\ failAt \in FailPoints(calls)
        \* the peer is inserted after initiate_handshake's Result is unwrapped
        /\ RoutingStep(ev,
                       IF failAt = 0
                       THEN [peers EXCEPT ![idx] = IF NewPeerInitiates(cfg) THEN r.peer ELSE peer]
                       ELSE peers,
                       Issued(calls, failAt), IoCause(failAt))

\* ReconnectCalls reconnecting to every peer, static or not
ReconnectCalls_always(rec) == <<ConnectToPeer(rec.cfg)>>

\* `if peer.static_peer_config.is_some() { connect_to_peer(config) }`
ReconnectCalls(rec) == IF rec.cfg # NoCfg THEN <<ConnectToPeer(rec.cfg)>> ELSE <<>>

HandlePeerDisconnect(p, failAt) ==
    LET ev == Event("PeerDisconnected", p, NoCfg, FALSE, NoCfg, NoCfg)
        calls == ReconnectCalls(peers[p])
    IN  IF ~peers[p].present
        THEN failAt = 0 /\ RoutingStep(ev, peers, <<>>, "todo_unknown_peer_disconnect")
        ELSE /\ failAt \in FailPoints(calls)
             /\ RoutingStep(ev, peers, Issued(calls, failAt), IoCause(failAt))

(***************************************************************************)
(* RoutingEventProcessor::process_network_event.                            *)
(***************************************************************************)
FailRange == 0..(MaxTip + 1)
OutgoingKinds == {"OutgoingNetworkMessage", "OutgoingNetworkMessageForAll",
                  "ConnectToPeer", "BlockFetchRequest"}

\* `match message { ... }` of process_incoming_message
ProcessIncomingMessage(p, tag) ==
    \/ tag = TagHandshakeChallenge /\ \E f \in FailRange : OnHandshakeChallenge(p, f)
    \/ tag = TagHandshakeResponse
         /\ \E valid \in BOOLEAN, f \in FailRange : OnHandshakeResponse(p, valid, f)
    \/ tag = TagHandshakeCompletion
         /\ \E valid \in BOOLEAN, f \in FailRange : OnHandshakeCompletion(p, valid, f)
    \/ tag \in {TagApplicationMessage, TagBlock, TagTransaction} /\ OnRelayMessage(p, tag)
    \/ tag = TagBlockchainRequest
         /\ \E latestId \in 0..MaxTip, lsa \in 0..MaxTip, f \in FailRange :
                ProcessIncomingBlockchainRequest(p, latestId, lsa, f)
    \/ tag = TagBlockHeaderHash
         /\ \E h \in BlockIds, f \in FailRange : ProcessIncomingBlockHash(p, h, f)

\* NetworkEvent::OutgoingNetworkMessage, OutgoingNetworkMessageForAll,
\* ConnectToPeer, BlockFetchRequest: unreachable!()
NetOutgoingEvent ==
    /\ ~panicked
    /\ \E kind \in OutgoingKinds :
           RoutingStep(Event(kind, NoCfg, NoCfg, FALSE, NoCfg, NoCfg), peers, <<>>,
                       "unreachable")
    /\ UNCHANGED <<tip, prog, held, chans, armed, sy, laterVars>>

\* NetworkEvent::IncomingNetworkMessage { peer_index, buffer }
NetIncomingNetworkMessage ==
    /\ ~panicked
    /\ \E p \in PeerIdx, tag \in BufferTags :
           IF ~MessageDeserialize(tag).ok
           THEN RoutingStep(Event("IncomingNetworkMessage", p, tag, FALSE, NoCfg, NoCfg),
                            peers, <<>>, "todo_deserialize")
           ELSE ProcessIncomingMessage(p, MessageDeserialize(tag).tag)
    /\ UNCHANGED <<tip, prog, held, chans, armed, sy, laterVars>>

\* NetworkEvent::PeerConnectionResult { peer_details, result }
NetPeerConnectionResult ==
    /\ ~panicked
    /\ \E cfg \in StaticCfgs \cup {NoCfg}, idx \in PeerIdx, ok \in BOOLEAN :
           IF ok
           THEN \E f \in FailRange : HandleNewPeer(cfg, idx, f)
           ELSE RoutingStep(Event("PeerConnectionResult", idx, NoCfg, FALSE, cfg, NoCfg),
                            peers, <<>>, "none")
    /\ UNCHANGED <<tip, prog, held, chans, armed, sy, laterVars>>

\* NetworkEvent::PeerDisconnected { peer_index }
NetPeerDisconnected ==
    /\ ~panicked
    /\ \E p \in PeerIdx, f \in FailRange : HandlePeerDisconnect(p, f)
    /\ UNCHANGED <<tip, prog, held, chans, armed, sy, laterVars>>

\* Blockchain, written by the Consensus processor under its write lock
\* (block production, fetched blocks): a block that extends the tip is added
ChainAdvances ==
    /\ tip < MaxTip
    /\ tip' = tip + 1
    /\ lastEvent' = Event("ChainAdvances", NoCfg, NoCfg, FALSE, tip + 1, NoCfg)
    /\ out' = <<>>
    /\ UNCHANGED <<peers, panicked, panicCause, prog, held, chans, armed, sy, laterVars>>

(***************************************************************************)
(* Spec: the Routing processor fed by the network, beside a growing chain.   *)
(***************************************************************************)
InitRouting ==
    /\ peers = [p \in PeerIdx |-> AbsentPeer]
    /\ tip = 0
    /\ panicked = FALSE
    /\ panicCause = "none"
    /\ lastEvent = NoEvent
    /\ out = <<>>

InitLocksIdle ==
    /\ prog = <<>>
    /\ held = <<>>
    /\ chans = <<>>
    /\ armed = FALSE

InitSyncIdle == sy = <<>>

InitDataIdle == cod = <<>> /\ wal = <<>> /\ drv = <<>>

InitLaterIdle ==
    /\ pipe = <<>>
    /\ con = <<>>
    /\ mi = <<>>
    /\ gt = <<>>
    /\ cod = <<>>
    /\ wal = <<>>
    /\ drv = <<>>

Init == InitRouting /\ InitLocksIdle /\ InitSyncIdle /\ InitLaterIdle

RoutingNext ==
    \/ NetOutgoingEvent
    \/ NetIncomingNetworkMessage
    \/ NetPeerConnectionResult
    \/ NetPeerDisconnected
    \/ ChainAdvances

Next == RoutingNext

Spec == Init /\ [][Next]_vars

(***************************************************************************)
(* SpecLocks: the three processors interleaved at their suspension points.  *)
(* A handler is the sequence of its suspension points:                      *)
(*   <<"acq", lock, mode>>  lock.read().await ("r") or lock.write().await   *)
(*   <<"rel", lock, "">>    the guard goes out of scope                     *)
(*   <<"send", chan, ev>>   sender.send(ev).await on a bounded channel      *)
(*   <<"io", call, "">>     a call of the I/O interface or of storage       *)
(* The channels are created with capacity 100 (saitowasm.rs:93-95); the     *)
(* model bounds them by ChannelCapacity. The handlers' panicking paths and  *)
(* on_init are left out: they take no second lock.                          *)
(***************************************************************************)
ChannelCapacity == 2

Procs == {"Routing", "Consensus", "Mining"}
Channels == {"routing", "consensus", "miner"}

Acq(l, m) == <<"acq", l, m>>
Rel(l) == <<"rel", l, "">>
Send(c, e) == <<"send", c, e>>
Io(call) == <<"io", call, "">>

\* Callees outside src/ that are handed a lock or a sender.
\* peer.initiate_handshake / peer.handle_handshake_challenge(io, wallet, configs)
PeerUsesConfigsAndWallet ==
    <<Acq("Configuration", "r"), Rel("Configuration"),
      Acq("Wallet", "r"), Rel("Wallet"), Io("send_message")>>
\* peer.handle_handshake_response(response, io, wallet)
PeerUsesWallet == <<Acq("Wallet", "r"), Rel("Wallet"), Io("send_message")>>
\* Transaction::generate_transaction(wallet, ..), add_hop_to_path(wallet, ..)
TransactionUsesWallet ==
    <<Acq("Wallet", "w"), Rel("Wallet"), Acq("Wallet", "r"), Rel("Wallet")>>
\* mempool.can_bundle_block(blockchain, timestamp)
CanBundleBlockScript == <<Acq("Blockchain", "r"), Rel("Blockchain")>>
\* blockchain.add_block(block, network, storage, sender_to_miner): the wallet
\* is notified, LongestChainBlockAdded is sent when the block becomes the tip
\* (becomesTip), and the block is persisted
AddBlockScript(becomesTip) ==
    <<Acq("Wallet", "w"), Rel("Wallet")>>
    \o (IF becomesTip THEN <<Send("miner", "LongestChainBlockAdded")>> ELSE <<>>)
    \o <<Io("write_block")>>
\* miner.mine(sender_to_mempool): a NewGoldenTicket is sent when the
\* candidate solution meets the difficulty (found)
MineScript(found) ==
    <<Acq("Wallet", "r"), Rel("Wallet")>>
    \o (IF found THEN <<Send("consensus", "NewGoldenTicket")>> ELSE <<>>)

\* request_blockchain_from_peer taking the blockchain write lock
RequestBlockchainScript_writes ==
    <<Acq("Blockchain", "w"), Rel("Blockchain"), Io("send_message")>>

\* RoutingEventProcessor::request_blockchain_from_peer
RequestBlockchainScript ==
    <<Acq("Blockchain", "r"), Rel("Blockchain"), Io("send_message")>>

\* RoutingEventProcessor::process_network_event, one script per path
RoutingScripts ==
    {   \* HandshakeChallenge
        <<Acq("Peers", "w")>> \o PeerUsesConfigsAndWallet \o <<Rel("Peers")>>,
        \* HandshakeResponse, valid: handshake_done
        <<Acq("Peers", "w")>> \o PeerUsesWallet \o RequestBlockchainScript
            \o <<Rel("Peers")>>,
        \* HandshakeCompletion, handshake_done
        <<Acq("Peers", "w")>> \o RequestBlockchainScript \o <<Rel("Peers")>>,
        \* HandshakeCompletion, handshake not done
        <<Acq("Peers", "w"), Rel("Peers")>>,
        \* BlockchainRequest: the header hashes are sent under the read lock
        <<Acq("Blockchain", "r"), Io("send_message"), Rel("Blockchain")>>,
        \* BlockHeaderHash, block not indexed
        <<Acq("Blockchain", "r"), Rel("Blockchain"), Acq("Peers", "r"), Rel("Peers"),
          Io("fetch_block_from_peer")>>,
        \* PeerConnectionResult, no static config: handle_new_peer initiates
        <<Acq("Peers", "w")>> \o PeerUsesConfigsAndWallet \o <<Rel("Peers")>>,
        \* PeerDisconnected, static peer
        <<Acq("Peers", "r"), Io("connect_to_peer"), Rel("Peers")>>,
        \* BlockFetched
        <<Send("consensus", "BlockFetched")>> }

\* ConsensusEventProcessor::generate_tx
GenerateTxScript ==
    <<Acq("Wallet", "r"), Rel("Wallet"), Acq("Mempool", "w"), Acq("Blockchain", "r")>>
    \o TransactionUsesWallet \o <<Rel("Blockchain"), Rel("Mempool")>>

\* ConsensusEventProcessor::process_timer_event: the block timer has expired;
\* genTx: test transactions are due; canBundle: can_bundle_block's answer
ConsensusTimerScript(genTx, canBundle) ==
    (IF genTx THEN GenerateTxScript ELSE <<>>)
    \o <<Acq("Mempool", "r")>> \o CanBundleBlockScript \o <<Rel("Mempool")>>
    \o (IF canBundle
        THEN <<Acq("Mempool", "w"), Acq("Blockchain", "w")>> \o AddBlockScript(TRUE)
             \o <<Rel("Blockchain"), Rel("Mempool")>>
        ELSE <<>>)

\* ConsensusEventProcessor::process_event
ConsensusEventScript(ev, becomesTip) ==
    IF ev = "NewGoldenTicket"
    THEN <<Acq("Mempool", "w"), Rel("Mempool")>>
    ELSE <<Acq("Blockchain", "w")>> \o AddBlockScript(becomesTip) \o <<Rel("Blockchain")>>

\* MinerController::process_timer_event, armed and the interval exceeded
MiningTimerScript(found) == <<Acq("Miner", "r")>> \o MineScript(found) \o <<Rel("Miner")>>
\* MinerController::process_event(LongestChainBlockAdded)
MiningEventScript == <<Acq("Miner", "w"), Rel("Miner")>>

\* tokio RwLock: a writer excludes everyone, readers exclude writers
CanAcquire(p, l, m) ==
    \A q \in Procs \ {p} : \A i \in 1..Len(held[q]) :
        held[q][i][1] = l => (m = "r" /\ held[q][i][2] = "r")

\* the guard of lock l that p took last goes out of scope
RECURSIVE DropGuard(_, _)
DropGuard(h, l) ==
    IF h = <<>> THEN <<>>
    ELSE IF h[Len(h)][1] = l THEN SubSeq(h, 1, Len(h) - 1)
    ELSE Append(DropGuard(SubSeq(h, 1, Len(h) - 1), l), h[Len(h)])

\* p can pass the suspension point it is at
CanStep(p) ==
    /\ prog[p] # <<>>
    /\ LET ins == Head(prog[p]) IN
       /\ ins[1] = "acq" => CanAcquire(p, ins[2], ins[3])
       /\ ins[1] = "send" => Len(chans[ins[2]]) < ChannelCapacity

\* p passes the suspension point it is at
Step(p) ==
    /\ CanStep(p)
    /\ LET ins == Head(prog[p]) IN
       /\ prog' = [prog EXCEPT ![p] = Tail(prog[p])]
       /\ held' = [held EXCEPT ![p] =
                      IF ins[1] = "acq" THEN Append(held[p], <<ins[2], ins[3]>>)
                      ELSE IF ins[1] = "rel" THEN DropGuard(held[p], ins[2])
                      ELSE held[p]]
       /\ chans' = IF ins[1] = "send"
                   THEN [chans EXCEPT ![ins[2]] = Append(chans[ins[2]], ins[3])]
                   ELSE chans
    /\ UNCHANGED <<armed, routingVars, sy, laterVars>>

\* the Routing processor takes a network event
RoutingStart ==
    /\ prog["Routing"] = <<>>
    /\ \E script \in RoutingScripts : prog' = [prog EXCEPT !["Routing"] = script]
    /\ UNCHANGED <<held, chans, armed, routingVars, sy, laterVars>>

\* the Consensus processor runs a timer tick in which the block timer expires
ConsensusTimer ==
    /\ prog["Consensus"] = <<>>
    /\ \E genTx \in BOOLEAN, canBundle \in BOOLEAN :
           prog' = [prog EXCEPT !["Consensus"] = ConsensusTimerScript(genTx, canBundle)]
    /\ UNCHANGED <<held, chans, armed, routingVars, sy, laterVars>>

\* the Consensus processor receives a ConsensusEvent
ConsensusReceive ==
    /\ prog["Consensus"] = <<>>
    /\ chans["consensus"] # <<>>
    /\ chans' = [chans EXCEPT !["consensus"] = Tail(chans["consensus"])]
    /\ \E becomesTip \in BOOLEAN :
           prog' = [prog EXCEPT !["Consensus"] =
                       ConsensusEventScript(Head(chans["consensus"]), becomesTip)]
    /\ UNCHANGED <<held, armed, routingVars, sy, laterVars>>

\* the Mining processor runs a timer tick that makes a mining attempt
MiningTimer ==
    /\ prog["Mining"] = <<>>
    /\ armed
    /\ armed' = FALSE
    /\ \E found \in BOOLEAN : prog' = [prog EXCEPT !["Mining"] = MiningTimerScript(found)]
    /\ UNCHANGED <<held, chans, routingVars, sy, laterVars>>

\* the Mining processor receives LongestChainBlockAdded
MiningReceive ==
    /\ prog["Mining"] = <<>>
    /\ chans["miner"] # <<>>
    /\ chans' = [chans EXCEPT !["miner"] = Tail(chans["miner"])]
    /\ prog' = [prog EXCEPT !["Mining"] = MiningEventScript]
    /\ armed' = TRUE
    /\ UNCHANGED <<held, routingVars, sy, laterVars>>

InitLocks ==
    /\ prog = [p \in Procs |-> <<>>]
    /\ held = [p \in Procs |-> <<>>]
    /\ chans = [c \in Channels |-> <<>>]
    /\ armed = FALSE

LocksNext ==
    \/ RoutingStart
    \/ ConsensusTimer
    \/ ConsensusReceive
    \/ MiningTimer
    \/ MiningReceive
    \/ \E p \in Procs : Step(p)

LocksInit == InitRouting /\ InitLocks /\ InitSyncIdle /\ InitLaterIdle

SpecLocks == LocksInit /\ [][LocksNext]_vars

(***************************************************************************)
(* Claims about locks and channels (SpecLocks).                             *)
(***************************************************************************)
\* the global lock order of the design
LockOrder == <<"Configuration", "Wallet", "Mempool", "Blockchain", "Miner", "Peers">>
LockRank(l) == CHOOSE i \in 1..Len(LockOrder) : LockOrder[i] = l

\* C1: lock ordering: whenever a processor holds one shared lock and
\* acquires another, the acquisition follows the order Configuration,
\* Wallet, Mempool, Blockchain, Miner, Peers.
C1_LockOrderRespected ==
    \A p \in Procs : \A i, j \in 1..Len(held[p]) :
        i < j => LockRank(held[p][i][1]) < LockRank(held[p][j][1])

SendBlocked(p, c) ==
    /\ prog[p] # <<>>
    /\ Head(prog[p])[1] = "send" /\ Head(prog[p])[2] = c
    /\ Len(chans[c]) >= ChannelCapacity

\* C2: deadlock freedom: no state of circular wait, the Consensus processor
\* blocked sending a mining event on the full miner channel while the Mining
\* processor is blocked sending a NewGoldenTicket on the full consensus channel.
C2_NoCircularWait ==
    ~(SendBlocked("Consensus", "miner") /\ SendBlocked("Mining", "consensus"))

\* C3: no processor is at an I/O call or a channel send while it holds a
\* write lock.
C3_NoIoUnderWriteLock ==
    \A p \in Procs :
        (prog[p] # <<>> /\ Head(prog[p])[1] \in {"io", "send"})
            => \A i \in 1..Len(held[p]) : held[p][i][2] # "w"

\* the Consensus processor between the can_bundle_block check, whose read
\* guards are dropped, and the write locks under which the block is built
BetweenCheckAndBuild ==
    /\ Len(prog["Consensus"]) >= 2
    /\ prog["Consensus"][1] = Acq("Mempool", "w")
    /\ prog["Consensus"][2] = Acq("Blockchain", "w")
    /\ held["Consensus"] = <<>>

WritesChainState(ins) == ins \in {Acq("Mempool", "w"), Acq("Blockchain", "w")}
HoldsWrite(p) ==
    \E i \in 1..Len(held[p]) :
        held[p][i] \in {<<"Mempool", "w">>, <<"Blockchain", "w">>}

\* C35: only the Consensus processor takes the Mempool or the Blockchain
\* write lock: Routing and Mining neither hold one nor have one ahead in
\* their handler; so between the can_bundle_block check and the write
\* locks of the build nobody holds a write guard on either, and nobody but
\* Consensus is about to take one.
C35_OnlyConsensusWrites ==
    /\ \A p \in Procs \ {"Consensus"} :
          /\ ~HoldsWrite(p)
          /\ \A i \in 1..Len(prog[p]) : ~WritesChainState(prog[p][i])
    /\ BetweenCheckAndBuild => \A p \in Procs : ~HoldsWrite(p)

\* Consensus between the check and the build while Routing reads the
\* blockchain and Mining is in a handler
C35_Witness ==
    /\ BetweenCheckAndBuild
    /\ \E i \in 1..Len(held["Routing"]) : held["Routing"][i] = <<"Blockchain", "r">>
    /\ prog["Mining"] # <<>>

(***************************************************************************)
(* SpecSync: sync on handshake between this node (tip sy.m) and a peer X    *)
(* (tip sy.n) on the same chain, both running the Routing processor above.  *)
(* Each node knows the other as peer index SyncPeer.                        *)
(***************************************************************************)
SyncPeer == CHOOSE p \in PeerIdx : \A q \in PeerIdx : p <= q

\* a peer whose handshake has just been completed
CompletedPeer == PeerHandleHandshakeCompletion(SyncPeer, NewPeer, TRUE).peer

\* this node: the handshake with X completes (HandshakeResponse or
\* HandshakeCompletion arm of process_incoming_message)
SyncHandshakeCompleted ==
    /\ sy.stage = "handshake"
    /\ sy' = [sy EXCEPT !.stage = "requested",
                        !.toX = SyncAfterHandshake(SyncPeer, CompletedPeer, sy.m)]
    /\ UNCHANGED <<routingVars, lockVars, laterVars>>

\* X: process_incoming_blockchain_request on the request it received
SyncPeerAnswers ==
    /\ sy.stage = "requested"
    /\ sy.toX # <<>>
    /\ \E lsa \in LastSharedAncestors(sy.n, Head(sy.toX)[4][1]) :
           sy' = [sy EXCEPT !.stage = "answered",
                            !.toX = Tail(sy.toX),
                            !.requests = sy.requests + 1,
                            !.lsa = lsa,
                            !.toUs = BlockchainRequestAnswer(SyncPeer, lsa, sy.n),
                            !.sent = BlockchainRequestAnswer(SyncPeer, lsa, sy.n)]
    /\ UNCHANGED <<routingVars, lockVars, laterVars>>

\* this node: process_incoming_block_hash on the next header hash of X
SyncReceiveHash ==
    /\ sy.stage = "answered"
    /\ sy.toUs # <<>>
    /\ sy' = [sy EXCEPT !.toUs = Tail(sy.toUs),
                        !.fetches = sy.fetches
                            \o BlockHashFetches(SyncPeer, Head(sy.toUs)[4][1], sy.m)]
    /\ UNCHANGED <<routingVars, lockVars, laterVars>>

InitSync ==
    sy \in {[stage |-> "handshake", m |-> m, n |-> n, lsa |-> 0, requests |-> 0,
             toX |-> <<>>, toUs |-> <<>>, sent |-> <<>>, fetches |-> <<>>] :
            m \in 0..MaxTip, n \in 0..(MaxTip + 1)}

SyncInit == InitRouting /\ InitLocksIdle /\ InitSync /\ InitLaterIdle

SyncNext ==
    \/ SyncHandshakeCompleted
    \/ SyncPeerAnswers
    \/ SyncReceiveHash

SpecSync == SyncInit /\ [][SyncNext]_vars

\* C10: sync on handshake, end to end: when X with tip N completes the
\* handshake with a node with tip M < N on the same chain (X finding M, the
\* last block they share, as the last shared ancestor), the node sends one
\* BlockchainRequest, X answers with exactly N - M BlockHeaderHash messages,
\* for ids M+1..N in order, and the node issues exactly N - M block fetches.
C10_SyncOnHandshake ==
    (sy.stage = "answered" /\ sy.toUs = <<>> /\ sy.m < sy.n /\ sy.lsa = sy.m) =>
        /\ sy.requests = 1
        /\ Len(sy.sent) = sy.n - sy.m
        /\ \A k \in 1..Len(sy.sent) :
              sy.sent[k] = SendMessage(SyncPeer, TagBlockHeaderHash, <<sy.m + k>>)
        /\ Len(sy.fetches) = sy.n - sy.m

(***************************************************************************)
(* Claims about the Routing processor (Spec).                               *)
(***************************************************************************)
IsIncoming(tag) == lastEvent.kind = "IncomingNetworkMessage" /\ lastEvent.tag = tag
IsBlockchainRequest(call) == call[1] = "send_message" /\ call[3] = TagBlockchainRequest

\* The panics the listed network inputs raise.
InputPanics == {"todo_deserialize", "todo_unknown_peer", "unwrap_handshake_response",
                "expect_peer_not_found", "unreachable"}

\* C4: the Routing processor never panics on network input: a buffer that
\* fails to deserialize, a handshake message from a peer index not in the
\* peer table, a handshake response whose verification fails, a
\* BlockHeaderHash from an unknown peer and an outgoing-type event are all
\* dropped, and the processor goes on to the next event.
C4_NeverPanicsOnNetworkInput == ~(panicked /\ panicCause \in InputPanics)

\* C5: a PeerDisconnected for a peer index that is not in the peer table
\* never panics: it is dropped and no connection attempt is made.
C5_UnknownDisconnectDropped ==
    (lastEvent.kind = "PeerDisconnected" /\ ~peers[lastEvent.peer].present)
        => (~panicked /\ out = <<>>)

IsNewPeerEvent == lastEvent.kind = "PeerConnectionResult" /\ lastEvent.valid
Challenge(p) == SendMessage(p, TagHandshakeChallenge, <<>>)

\* C6 as stated: on a successful PeerConnectionResult{cfg, result} the peer
\* is inserted and a HandshakeChallenge is sent if and only if cfg is given.
C6_InitiatesIffCfgGiven ==
    IsNewPeerEvent =>
        /\ peers[lastEvent.peer].present
        /\ (\E i \in 1..Len(out) : out[i] = Challenge(lastEvent.peer))
               <=> (lastEvent.a # NoCfg)

\* C6 amended: on a successful PeerConnectionResult{cfg, result} the node
\* sends a HandshakeChallenge to the new index if and only if cfg is absent
\* (an incoming connection) and sends nothing when cfg is given; when the
\* handler returns, a Peer with the returned index, that cfg and no
\* handshake done is in the peer table; the handler fails to return only
\* when the challenge's send returns Err, which it unwraps before inserting.
C6_InitiatesIffCfgAbsent ==
    IsNewPeerEvent =>
        /\ out = (IF lastEvent.a = NoCfg THEN <<Challenge(lastEvent.peer)>> ELSE <<>>)
        /\ ~panicked => peers[lastEvent.peer] =
                            [present |-> TRUE, handshake_done |-> FALSE, cfg |-> lastEvent.a]
        /\ panicked => (lastEvent.a = NoCfg /\ panicCause = "io_error")

C6_Witness ==
    /\ IsNewPeerEvent /\ ~panicked
    /\ lastEvent.a = NoCfg
    /\ out = <<Challenge(lastEvent.peer)>>
    /\ peers[lastEvent.peer].present

\* C7: after a HandshakeResponse or HandshakeCompletion from peer p has been
\* handled, exactly one BlockchainRequest carrying the latest block id, the
\* latest block hash and the fork id was sent to p if p.handshake_done is
\* true and none if it is false; and no step ever sends a BlockchainRequest
\* to a peer whose handshake is not done.
C7_BlockchainRequestIffHandshakeDone ==
    LET p == lastEvent.peer
        reqs == {i \in 1..Len(out) : IsBlockchainRequest(out[i])}
    IN  /\ \A i \in reqs :
              /\ IsIncoming(TagHandshakeResponse) \/ IsIncoming(TagHandshakeCompletion)
              /\ out[i] = SendMessage(p, TagBlockchainRequest,
                                      <<tip, LongestChainHashAt(tip, tip), GetForkId(tip)>>)
              /\ peers[p].handshake_done
        /\ Cardinality(reqs) <= 1
        /\ ((IsIncoming(TagHandshakeResponse) \/ IsIncoming(TagHandshakeCompletion))
                /\ ~panicked)
              => (reqs # {} <=> peers[p].handshake_done)

C7_Witness ==
    /\ IsIncoming(TagHandshakeResponse) /\ ~panicked
    /\ tip > 0
    /\ peers[lastEvent.peer].handshake_done
    /\ Len(out) = 2 /\ IsBlockchainRequest(out[2])

\* C8: on a BlockchainRequest the peer is sent one BlockHeaderHash for each
\* longest-chain block with id last_shared_ancestor + 1 .. tip, ascending,
\* and none for the block at last_shared_ancestor or below.
C8_HeaderHashesAfterSharedAncestor ==
    (IsIncoming(TagBlockchainRequest) /\ ~panicked) =>
        LET lsa == lastEvent.b IN
        /\ Len(out) = tip - lsa
        /\ \A k \in 1..Len(out) :
              out[k] = SendMessage(lastEvent.peer, TagBlockHeaderHash,
                                   <<LongestChainHashAt(tip, lsa + k)>>)

\* C9: on a BlockHeaderHash(h) from a peer p of the peer table exactly one
\* fetch_block_from_peer(h, p, url) is issued if h is not indexed and none
\* if it is; the blockchain and the peer table are left as they were.
C9_FetchIffNotIndexed ==
    [][(/\ lastEvent'.kind = "IncomingNetworkMessage"
        /\ lastEvent'.tag = TagBlockHeaderHash
        /\ peers[lastEvent'.peer].present)
       => /\ out' = (IF lastEvent'.a >= 1 /\ lastEvent'.a <= tip
                     THEN <<>>
                     ELSE <<FetchBlockFromPeer(lastEvent'.a, lastEvent'.peer)>>)
          /\ peers' = peers
          /\ tip' = tip]_vars

C9_Witness ==
    /\ IsIncoming(TagBlockHeaderHash)
    /\ peers[lastEvent.peer].present
    /\ tip > 0 /\ lastEvent.a > tip
    /\ out = <<FetchBlockFromPeer(lastEvent.a, lastEvent.peer)>>

\* C12: on a PeerDisconnected for a peer of the peer table exactly one
\* connect_to_peer call, with the peer's static config, is made if the peer
\* has a static config, and no call at all is made if it has none; the peer
\* table is left as it was.
C12_ReconnectIffStatic ==
    [][(lastEvent'.kind = "PeerDisconnected" /\ peers[lastEvent'.peer].present)
       => /\ out' = (IF peers[lastEvent'.peer].cfg # NoCfg
                     THEN <<ConnectToPeer(peers[lastEvent'.peer].cfg)>>
                     ELSE <<>>)
          /\ peers' = peers]_vars

C12_Witness ==
    /\ lastEvent.kind = "PeerDisconnected"
    /\ peers[lastEvent.peer].present
    /\ peers[lastEvent.peer].cfg \in StaticCfgs
    /\ out = <<ConnectToPeer(peers[lastEvent.peer].cfg)>>
    /\ ~panicked

\* C33: header hashes are sent in answer to a BlockchainRequest, and blocks
\* are fetched in answer to a BlockHeaderHash, only for a peer whose
\* handshake is completed.
C33_SyncGatedByHandshake ==
    (/\ lastEvent.kind = "IncomingNetworkMessage"
     /\ lastEvent.tag \in {TagBlockchainRequest, TagBlockHeaderHash}
     /\ out # <<>>)
        => (peers[lastEvent.peer].present /\ peers[lastEvent.peer].handshake_done)

(***************************************************************************)
(* SpecPipe: fetched blocks on their way from the Routing processor to the  *)
(* Consensus processor over the consensus channel, which also carries the   *)
(* miner's golden tickets.                                                  *)
(*   pipe.handled  the BlockFetched events Routing has handled, in order    *)
(*   pipe.chan     the consensus channel                                    *)
(*   pipe.applied  the add_block calls of Consensus for fetched blocks      *)
(***************************************************************************)
MaxHandled == 3     \* BlockFetched events handled in a behaviour
MaxBuffer == 2      \* distinct block buffers 1..MaxBuffer

\* ForwardBlockFetched forwarding the buffer without the peer index
ForwardBlockFetched_nopeer(p, buffer) ==
    [kind |-> "BlockFetched", peer_index |-> NoCfg, buffer |-> buffer]

\* `ConsensusEvent::BlockFetched { peer_index, buffer }` built by Routing
ForwardBlockFetched(p, buffer) ==
    [kind |-> "BlockFetched", peer_index |-> p, buffer |-> buffer]

\* ConsensusEvent::NewGoldenTicket, sent by miner.mine
NewGoldenTicketEvent == [kind |-> "NewGoldenTicket", peer_index |-> NoCfg, buffer |-> NoCfg]

\* Routing: NetworkEvent::BlockFetched { block_hash, peer_index, buffer }; the
\* send waits while the channel is full
PipeRoutingBlockFetched ==
    /\ Len(pipe.handled) < MaxHandled
    /\ Len(pipe.chan) < ChannelCapacity
    /\ \E p \in PeerIdx, buffer \in 1..MaxBuffer :
           pipe' = [pipe EXCEPT !.handled = Append(pipe.handled, <<p, buffer>>),
                                !.chan = Append(pipe.chan, ForwardBlockFetched(p, buffer))]
    /\ UNCHANGED <<routingVars, lockVars, sy, con, mi, gt, dataVars>>

\* Mining: a golden ticket is sent on the same channel
PipeMinerSends ==
    /\ Len(pipe.chan) < ChannelCapacity
    /\ pipe' = [pipe EXCEPT !.chan = Append(pipe.chan, NewGoldenTicketEvent)]
    /\ UNCHANGED <<routingVars, lockVars, sy, con, mi, gt, dataVars>>

\* Consensus: process_event on the event at the head of the channel; a
\* BlockFetched is deserialized and added under `self.blockchain.write()`
PipeConsensusReceive ==
    /\ pipe.chan # <<>>
    /\ LET ev == Head(pipe.chan) IN
       pipe' = [pipe EXCEPT
                   !.chan = Tail(pipe.chan),
                   !.applied = IF ev.kind = "BlockFetched"
                               THEN Append(pipe.applied,
                                           [peer_index |-> ev.peer_index,
                                            buffer |-> ev.buffer,
                                            guard |-> <<"Blockchain", "w">>])
                               ELSE pipe.applied]
    /\ UNCHANGED <<routingVars, lockVars, sy, con, mi, gt, dataVars>>

InitPipe == pipe = [handled |-> <<>>, chan |-> <<>>, applied |-> <<>>]

PipeInit ==
    /\ InitRouting /\ InitLocksIdle /\ InitSyncIdle
    /\ InitPipe /\ con = <<>> /\ mi = <<>> /\ gt = <<>> /\ InitDataIdle

PipeNext ==
    \/ PipeRoutingBlockFetched
    \/ PipeMinerSends
    \/ PipeConsensusReceive

SpecPipe == PipeInit /\ [][PipeNext]_vars

\* C11: every BlockFetched{hash, peer, bytes} handled by Routing becomes
\* exactly one ConsensusEvent::BlockFetched with the same peer index and
\* bytes; the fetched blocks reach Consensus in the order Routing handled
\* them; and Consensus applies each under the blockchain write lock: the
\* blocks applied so far followed by the BlockFetched events still queued
\* are, in order, exactly the events Routing handled.
C11_FetchedBlocksForwardedInOrder ==
    LET queued == SelectSeq(pipe.chan, LAMBDA e : e.kind = "BlockFetched")
        seen == [i \in 1..Len(pipe.applied) |->
                    <<pipe.applied[i].peer_index, pipe.applied[i].buffer>>]
                \o [i \in 1..Len(queued) |-> <<queued[i].peer_index, queued[i].buffer>>]
    IN  /\ seen = pipe.handled
        /\ \A i \in 1..Len(pipe.applied) : pipe.applied[i].guard = <<"Blockchain", "w">>

C11_Witness ==
    /\ Len(pipe.handled) = MaxHandled
    /\ Len(pipe.applied) = MaxHandled
    /\ pipe.applied[1].buffer # pipe.applied[2].buffer
    /\ pipe.applied[1].peer_index # pipe.applied[2].peer_index

(***************************************************************************)
(* SpecFetch: block hashes announced by connected peers, the fetches the    *)
(* Routing processor issues for them, and the Consensus processor applying  *)
(* the fetched blocks.                                                      *)
(*   pipe.tip        the blockchain: blocks 1..tip are indexed              *)
(*   pipe.requested  the fetch_block_from_peer calls the I/O layer has not  *)
(*                   answered yet, as <<hash, peer>>                        *)
(*   pipe.chan       the BlockFetched events queued for Consensus           *)
(*   pipe.log        the BlockHeaderHash messages handled and the fetched   *)
(*                   blocks applied, in order                               *)
(***************************************************************************)
MaxAnnounced == 3   \* BlockHeaderHash messages handled in a behaviour

\* blockchain.add_block(block, ..) for a fetched block: a block whose
\* previous block is the tip is added; one already indexed, or one whose
\* previous block is not known, leaves the tip where it is
AddFetchedBlock(t, h) == IF h = t + 1 THEN t + 1 ELSE t

Announcements == SelectSeq(pipe.log, LAMBDA e : e.kind = "hash")

\* Routing: IncomingNetworkMessage{peer, BlockHeaderHash(h)} from a peer of
\* the peer table, h the hash of one of the blocks 1..MaxBuffer
FetchIncomingBlockHash ==
    /\ Len(Announcements) < MaxAnnounced
    /\ \E p \in PeerIdx, h \in 1..MaxBuffer :
          LET calls == BlockHashFetches(p, h, pipe.tip) IN
          pipe' = [pipe EXCEPT
                      !.requested = @ \o [i \in 1..Len(calls) |-> <<h, p>>],
                      !.log = Append(@, [kind |-> "hash", h |-> h, peer |-> p,
                                         fetched |-> calls # <<>>,
                                         indexed |-> IsBlockIndexed(pipe.tip, h)])]
    /\ UNCHANGED <<routingVars, lockVars, sy, con, mi, gt, dataVars>>

\* Routing: NetworkEvent::BlockFetched for one of the requests, in whatever
\* order the I/O layer answers them, forwarded to Consensus
FetchBlockFetched ==
    /\ Len(pipe.chan) < ChannelCapacity
    /\ \E i \in 1..Len(pipe.requested) :
          pipe' = [pipe EXCEPT
                      !.requested = SubSeq(@, 1, i - 1) \o SubSeq(@, i + 1, Len(@)),
                      !.chan = Append(@, ForwardBlockFetched(pipe.requested[i][2],
                                                             pipe.requested[i][1]))]
    /\ UNCHANGED <<routingVars, lockVars, sy, con, mi, gt, dataVars>>

\* Consensus: process_event(BlockFetched): the block is added to the chain
FetchConsensusApplies ==
    /\ pipe.chan # <<>>
    /\ LET h == Head(pipe.chan).buffer
           t == AddFetchedBlock(pipe.tip, h)
       IN  pipe' = [pipe EXCEPT
                       !.chan = Tail(@),
                       !.tip = t,
                       !.log = Append(@, [kind |-> "applied", h |-> h,
                                          peer |-> Head(pipe.chan).peer_index,
                                          fetched |-> FALSE,
                                          indexed |-> IsBlockIndexed(t, h)])]
    /\ UNCHANGED <<routingVars, lockVars, sy, con, mi, gt, dataVars>>

InitFetch == pipe = [tip |-> 0, requested |-> <<>>, chan |-> <<>>, log |-> <<>>]

FetchInit ==
    /\ InitRouting /\ InitLocksIdle /\ InitSyncIdle
    /\ InitFetch /\ con = <<>> /\ mi = <<>> /\ gt = <<>> /\ InitDataIdle

FetchNext ==
    \/ FetchIncomingBlockHash
    \/ FetchBlockFetched
    \/ FetchConsensusApplies

SpecFetch == FetchInit /\ [][FetchNext]_vars

FetchesOf(h) == {i \in 1..Len(pipe.log) : pipe.log[i].h = h /\ pipe.log[i].fetched}

MaxMempoolTxs == 4      \* transactions the mempool holds at most
MaxTickets == 2         \* golden tickets the mempool holds at most

\* `if self.tx_producing_timer >= 1_000_000`, `if self.block_producing_timer >= 1_000_000`
TxInterval == 1000000
BlockInterval == 1000000
\* `let txs_to_generate = 10`, scaled
TxsToGenerate == 2
\* the durations a tick is given, in microseconds
TickDurations == {400000, 600000, 1000000}

Op(name) == <<"op", name, "">>

\* mempool.can_bundle_block(blockchain, timestamp): something to bundle, and
\* the fee and interval conditions (feeOk) met
CanBundleBlock(c, feeOk) == (c.txs >= 1 \/ c.gts >= 1) /\ feeOk
\* mempool.bundle_block(blockchain, timestamp): a block of the mempool's
\* transactions and one golden ticket, if one is waiting
BundleBlock(c) == [txs |-> c.txs, gt |-> IF c.gts >= 1 THEN 1 ELSE 0]

\* ConsensusEventProcessor::generate_tx: a vip transaction on an empty chain
\* and txs_to_generate transactions, `accepted` of which validate
GenerateTx(c, accepted) ==
    [c EXCEPT !.txs = @ + (IF c.tip = 0 THEN 1 ELSE 0) + accepted,
              !.ops = @ \o <<Op("generate_tx")>>]

\* the test-transaction part of process_timer_event
TickTxStage(c, dt, accepted) ==
    IF c.generate_test_tx
    THEN IF c.tx_producing_timer + dt >= TxInterval
         THEN [GenerateTx(c, accepted) EXCEPT !.tx_producing_timer = 0]
         ELSE [c EXCEPT !.tx_producing_timer = @ + dt]
    ELSE c

\* DrainBlock applying the block before deleting its transactions
DrainBlock_applyFirst(c, block) ==
    [c EXCEPT !.tip = @ + 1,
              !.txs = IF @ >= block.txs THEN @ - block.txs ELSE 0,
              !.ops = @ \o <<Op("add_block"), Op("delete_transactions")>>]

\* the body of `while let Some(block) = mempool.blocks_queue.pop_front()`
DrainBlock(c, block) ==
    [c EXCEPT !.txs = IF @ >= block.txs THEN @ - block.txs ELSE 0,
              !.tip = @ + 1,
              !.ops = @ \o <<Op("delete_transactions"), Op("add_block")>>]

RECURSIVE DrainQueue(_)
DrainQueue(c) ==
    IF c.blocks_queue = <<>> THEN c
    ELSE DrainQueue(DrainBlock([c EXCEPT !.blocks_queue = Tail(@)], Head(c.blocks_queue)))

\* `if can_bundle { ... }`: both write locks, one block bundled and enqueued,
\* the queue drained
TickBundleStage(c) ==
    LET block == BundleBlock(c)
        locked == [c EXCEPT !.ops = @ \o <<Acq("Mempool", "w"), Acq("Blockchain", "w"),
                                           Op("bundle_block"), Op("enqueue")>>,
                            !.gts = @ - block.gt,
                            !.blocks_queue = Append(@, block)]
        drained == DrainQueue(locked)
    IN  [drained EXCEPT !.ops = @ \o <<Rel("Blockchain"), Rel("Mempool")>>]

\* BundleGate bundling whenever the block timer has expired
BundleGate_timerOnly(due, canBundle) == due

\* `if can_bundle`, can_bundle being set only when the block timer expired
BundleGate(due, canBundle) == due /\ canBundle

\* ConsensusEventProcessor::process_timer_event
ConsensusTick(c, dt, accepted, feeOk) ==
    LET c0 == [c EXCEPT !.ops = <<>>]
        c1 == TickTxStage(c0, dt, accepted)
        due == c1.block_producing_timer + dt >= BlockInterval
        canBundle == CanBundleBlock(c1, feeOk)
        c2 == IF due
              THEN [c1 EXCEPT !.block_producing_timer = 0,
                              !.ops = @ \o <<Acq("Mempool", "r"), Op("can_bundle_block"),
                                             Rel("Mempool")>>]
              ELSE [c1 EXCEPT !.block_producing_timer = @ + dt]
        c3 == IF BundleGate(due, canBundle) THEN TickBundleStage(c2) ELSE c2
    IN  [c3 EXCEPT !.last = [kind |-> "tick", dt |-> dt,
                             can_bundle |-> IF ~due THEN "not_called"
                                            ELSE IF canBundle THEN "true" ELSE "false"]]

\* OnNewGoldenTicket also restarting the block timer
OnNewGoldenTicket_resetsTimer(c) ==
    [c EXCEPT !.gts = @ + 1, !.block_producing_timer = 0,
              !.ops = <<Acq("Mempool", "w"), Op("add_golden_ticket"), Rel("Mempool")>>,
              !.last = [kind |-> "NewGoldenTicket", dt |-> 0, can_bundle |-> "not_called"]]

\* process_event(ConsensusEvent::NewGoldenTicket { golden_ticket })
OnNewGoldenTicket(c) ==
    [c EXCEPT !.gts = @ + 1,
              !.ops = <<Acq("Mempool", "w"), Op("add_golden_ticket"), Rel("Mempool")>>,
              !.last = [kind |-> "NewGoldenTicket", dt |-> 0, can_bundle |-> "not_called"]]

\* process_event(ConsensusEvent::BlockFetched { peer_index: _, buffer })
OnBlockFetched(c) ==
    [c EXCEPT !.tip = @ + 1,
              !.ops = <<Acq("Blockchain", "w"), Op("deserialize_for_net"), Op("add_block"),
                        Rel("Blockchain")>>,
              !.last = [kind |-> "BlockFetched", dt |-> 0, can_bundle |-> "not_called"]]

ConsensusTimerTick ==
    /\ \E dt \in TickDurations, accepted \in 0..TxsToGenerate, feeOk \in BOOLEAN :
          LET c == ConsensusTick(con, dt, accepted, feeOk) IN
          /\ c.tip <= MaxTip /\ c.txs <= MaxMempoolTxs
          /\ con' = c
    /\ UNCHANGED <<routingVars, lockVars, sy, pipe, mi, gt, dataVars>>

ConsensusNewGoldenTicket ==
    /\ con.gts < MaxTickets
    /\ con' = OnNewGoldenTicket(con)
    /\ UNCHANGED <<routingVars, lockVars, sy, pipe, mi, gt, dataVars>>

ConsensusBlockFetched ==
    /\ con.tip < MaxTip
    /\ con' = OnBlockFetched(con)
    /\ UNCHANGED <<routingVars, lockVars, sy, pipe, mi, gt, dataVars>>

\* ConsensusEventProcessor as constructed: timers at 0, an empty mempool, a
\* fresh blockchain, the test-mode flag either way
InitConsensus ==
    con \in {[tx_producing_timer |-> 0, block_producing_timer |-> 0,
              generate_test_tx |-> f, txs |-> 0, gts |-> 0, blocks_queue |-> <<>>,
              tip |-> 0, ops |-> <<>>,
              last |-> [kind |-> "none", dt |-> 0, can_bundle |-> "not_called"]] :
             f \in BOOLEAN}

ConsensusInit ==
    /\ InitRouting /\ InitLocksIdle /\ InitSyncIdle
    /\ pipe = <<>> /\ InitConsensus /\ mi = <<>> /\ gt = <<>> /\ InitDataIdle

ConsensusNext ==
    \/ ConsensusTimerTick
    \/ ConsensusNewGoldenTicket
    \/ ConsensusBlockFetched

SpecConsensus == ConsensusInit /\ [][ConsensusNext]_vars

(***************************************************************************)
(* Claims about the Consensus processor (SpecConsensus).                    *)
(***************************************************************************)
IsTickStep == con'.last.kind = "tick"
OpsAt(ops, op) == {i \in 1..Len(ops) : ops[i] = op}
BlocksProduced == con'.tip - con.tip

\* C13: on every Consensus timer tick(dt) both tx_producing_timer and
\* block_producing_timer are advanced by dt, whatever the test-mode flag;
\* a timer is reset to 0 only when it has reached its threshold (and, for
\* the transaction timer, the flag is on).
C13_BothTimersAdvance ==
    [][IsTickStep =>
          LET dt == con'.last.dt IN
          /\ con'.block_producing_timer =
                 (IF con.block_producing_timer + dt >= BlockInterval THEN 0
                  ELSE con.block_producing_timer + dt)
          /\ con'.tx_producing_timer =
                 (IF con.generate_test_tx /\ con.tx_producing_timer + dt >= TxInterval
                  THEN 0 ELSE con.tx_producing_timer + dt)]_vars

\* C14 as stated: a tick produces a block only if the block timer reached
\* 1_000_000 in the tick and can_bundle_block returned true; when it
\* returned false no block is produced and the mempool's contents and the
\* blockchain are unchanged by the tick.
C14_GatedAndMempoolUntouched ==
    [][IsTickStep =>
          /\ BlocksProduced > 0 =>
                (con.block_producing_timer + con'.last.dt >= BlockInterval
                 /\ con'.last.can_bundle = "true")
          /\ con'.last.can_bundle = "false" =>
                (/\ BlocksProduced = 0
                 /\ con'.txs = con.txs /\ con'.gts = con.gts
                 /\ con'.blocks_queue = con.blocks_queue)]_vars

\* C14 amended: a tick produces a block only if the block timer reached
\* 1_000_000 in the tick and can_bundle_block returned true; when it
\* returned false, or was not called, no block is produced and the
\* blockchain, the block queue and the golden-ticket queue are unchanged;
\* the mempool's transactions are unchanged unless the test-mode flag is on
\* and tx_producing_timer reached 1_000_000 in the tick, when generate_tx
\* adds transactions (and nothing is removed).
C14_GatedAndOnlyTestTxsAdded ==
    [][IsTickStep =>
          /\ BlocksProduced > 0 =>
                (con.block_producing_timer + con'.last.dt >= BlockInterval
                 /\ con'.last.can_bundle = "true")
          /\ con'.last.can_bundle # "true" =>
                (/\ BlocksProduced = 0
                 /\ con'.gts = con.gts
                 /\ con'.blocks_queue = con.blocks_queue
                 /\ IF con.generate_test_tx
                       /\ con.tx_producing_timer + con'.last.dt >= TxInterval
                    THEN con'.txs >= con.txs
                    ELSE con'.txs = con.txs)]_vars

\* a tick whose block timer expired with a non-empty mempool, can_bundle_block
\* answering false: nothing is bundled
C14_Witness ==
    /\ con.last.kind = "tick"
    /\ con.last.can_bundle = "false"
    /\ con.txs >= 1
    /\ con.block_producing_timer = 0
    /\ OpsAt(con.ops, Op("bundle_block")) = {}

\* C15: a tick in which bundling is allowed takes the mempool write lock and
\* then the blockchain write lock, builds exactly one block and enqueues it,
\* and drains the queue, which is empty when the tick ends; each drained
\* block has its transactions deleted from the mempool before it is added to
\* the chain; one block is applied.
C15_BundleLocksAndDrain ==
    [][(IsTickStep /\ con'.last.can_bundle = "true") =>
          LET ops == con'.ops
              mw == OpsAt(ops, Acq("Mempool", "w"))
              bw == OpsAt(ops, Acq("Blockchain", "w"))
              adds == OpsAt(ops, Op("add_block"))
              dels == OpsAt(ops, Op("delete_transactions"))
          IN  /\ Cardinality(mw) = 1 /\ Cardinality(bw) = 1
              /\ \A i \in mw : \A j \in bw : j = i + 1
              /\ Cardinality(OpsAt(ops, Op("bundle_block"))) = 1
              /\ Cardinality(OpsAt(ops, Op("enqueue"))) = 1
              /\ \A j \in bw : \A k \in OpsAt(ops, Op("bundle_block")) \cup adds \cup dels :
                    j < k
              /\ Cardinality(adds) = 1 /\ Cardinality(dels) = 1
              /\ \A k \in adds : k - 1 \in dels
              /\ \A j \in bw : \A k \in adds :
                    \A r \in OpsAt(ops, Rel("Blockchain")) \cup OpsAt(ops, Rel("Mempool")) :
                        r < j \/ k < r
              /\ con'.blocks_queue = <<>>
              /\ con.blocks_queue = <<>>
              /\ BlocksProduced = 1]_vars

C15_Witness ==
    /\ con.last.kind = "tick"
    /\ con.last.can_bundle = "true"
    /\ con.tip >= 2
    /\ con.blocks_queue = <<>>
    /\ OpsAt(con.ops, Op("add_block")) # {}

\* C16: handling NewGoldenTicket{gt} adds gt to the mempool's golden-ticket
\* queue under the mempool write lock and leaves the blockchain, both
\* timers, the block queue and the mempool's transactions unchanged.
C16_GoldenTicketQueuedOnly ==
    [][con'.last.kind = "NewGoldenTicket" =>
          /\ con'.gts = con.gts + 1
          /\ con'.ops = <<Acq("Mempool", "w"), Op("add_golden_ticket"), Rel("Mempool")>>
          /\ con'.tip = con.tip
          /\ con'.tx_producing_timer = con.tx_producing_timer
          /\ con'.block_producing_timer = con.block_producing_timer
          /\ con'.blocks_queue = con.blocks_queue
          /\ con'.txs = con.txs]_vars

C16_Witness ==
    /\ con.last.kind = "NewGoldenTicket"
    /\ con.gts = 2
    /\ con.block_producing_timer > 0
    /\ con.tip > 0

(***************************************************************************)
(* SpecProduce: block production at the level of single transactions: the   *)
(* mempool filling up and the bundling part of the Consensus timer tick.    *)
(*   con.transactions  the transactions in the mempool                      *)
(*   con.blocks_queue  the mempool's queue of produced blocks               *)
(*   con.chain         the transactions of the blocks on the blockchain     *)
(*   con.n             the ticks made                                       *)
(*   con.last          the last step: its kind, the mempool before it, the  *)
(*                     block bundled and whether the chain accepted it      *)
(***************************************************************************)
MaxTxs == 3             \* transactions 1..MaxTxs
MaxProduceTicks == 3

\* mempool.bundle_block(blockchain, timestamp): a block of the transactions
\* in the mempool
BundleTransactions(c) == c.transactions

\* `mempool.delete_transactions(&block.get_transactions())`
DeleteTransactions(c, block) == [c EXCEPT !.transactions = @ \ block]

\* `blockchain.add_block(block, ..).await`: the block is verified and, if
\* valid, added; the call returns nothing to the caller
AddBlock(c, block, valid) == IF valid THEN [c EXCEPT !.chain = @ \cup block] ELSE c

\* the body of `while let Some(block) = mempool.blocks_queue.pop_front()`
RECURSIVE DrainBlocks(_, _)
DrainBlocks(c, valid) ==
    IF c.blocks_queue = <<>> THEN c
    ELSE LET block == Head(c.blocks_queue)
             popped == [c EXCEPT !.blocks_queue = Tail(@)]
         IN  DrainBlocks(AddBlock(DeleteTransactions(popped, block), block, valid), valid)

\* `if can_bundle { ... }` of process_timer_event
ProduceBlock(c, valid) ==
    LET block == BundleTransactions(c)
        drained == DrainBlocks([c EXCEPT !.blocks_queue = Append(@, block)], valid)
    IN  [drained EXCEPT !.n = @ + 1,
                        !.last = [kind |-> "tick", before |-> c.transactions,
                                  block |-> block, valid |-> valid]]

\* mempool.add_transaction(transaction)
ProduceAddTransaction ==
    /\ \E tx \in (1..MaxTxs) \ (con.transactions \cup con.chain) :
          con' = [con EXCEPT !.transactions = @ \cup {tx},
                             !.last = [kind |-> "add_transaction",
                                       before |-> con.transactions,
                                       block |-> {}, valid |-> FALSE]]
    /\ UNCHANGED <<routingVars, lockVars, sy, pipe, mi, gt, dataVars>>

\* a timer tick in which the block timer has expired and can_bundle_block
\* answers true
ProduceTimerTick ==
    /\ con.n < MaxProduceTicks
    /\ CanBundleBlock([txs |-> Cardinality(con.transactions), gts |-> 0], TRUE)
    /\ \E valid \in BOOLEAN : con' = ProduceBlock(con, valid)
    /\ UNCHANGED <<routingVars, lockVars, sy, pipe, mi, gt, dataVars>>

InitProduce ==
    con = [transactions |-> {}, blocks_queue |-> <<>>, chain |-> {}, n |-> 0,
           last |-> [kind |-> "none", before |-> {}, block |-> {}, valid |-> FALSE]]

ProduceInit ==
    /\ InitRouting /\ InitLocksIdle /\ InitSyncIdle
    /\ pipe = <<>> /\ InitProduce /\ mi = <<>> /\ gt = <<>> /\ InitDataIdle

ProduceNext ==
    \/ ProduceAddTransaction
    \/ ProduceTimerTick

SpecProduce == ProduceInit /\ [][ProduceNext]_vars

\* C36: after a Consensus tick every transaction that was in the mempool
\* before the tick is still in the mempool or in a block that was added to
\* the blockchain.
C36_NoTransactionLost ==
    con.last.kind = "tick" =>
        \A tx \in con.last.before : tx \in con.transactions \/ tx \in con.chain

(***************************************************************************)
(* SpecTicket: GoldenTicket::is_valid_solution (golden_ticket.rs), on        *)
(* hashes of HashBytes bytes (the source's are 32 bytes, 64 hex nibbles).    *)
(***************************************************************************)
HashBytes == 2          \* bytes of a hash; the target string has 2 * HashBytes nibbles
NibbleCount == 2 * HashBytes

\* the nibbles the solutions are made of, and the solutions
SolutionNibbles == {0, 14, 15}
SolutionBytes == {16 * hi + lo : hi \in SolutionNibbles, lo \in SolutionNibbles}
Solutions == [1..HashBytes -> SolutionBytes]
\* the difficulties: every target of NibbleCount nibbles, and past the last
Difficulties == 0..(16 * NibbleCount + 1)

\* the character pushed for final_digit, and what hex::decode reads it as
HexChars == <<"0", "1", "2", "3", "4", "5", "6", "7", "8", "9",
              "A", "B", "C", "D", "E", "F">>
HexValue(ch) == (CHOOSE k \in 1..16 : HexChars[k] = ch) - 1

\* the loop with final_digit counting up with the difficulty
TargetString_ascending(d) ==
    LET leading_zeroes_required == d \div 16
        final_digit == d % 16
    IN  [k \in 1..NibbleCount |->
            IF k - 1 < leading_zeroes_required THEN "0"
            ELSE IF k - 1 = leading_zeroes_required THEN HexChars[final_digit + 1]
            ELSE "F"]

\* the loop `for i in 0..64` building target_string
TargetString(d) ==
    LET leading_zeroes_required == d \div 16
        final_digit == 15 - (d % 16)
    IN  [k \in 1..NibbleCount |->
            IF k - 1 < leading_zeroes_required THEN "0"
            ELSE IF k - 1 = leading_zeroes_required THEN HexChars[final_digit + 1]
            ELSE "F"]

\* hex::decode(target_string): two characters a byte
HexDecode(str) ==
    [b \in 1..(Len(str) \div 2) |-> 16 * HexValue(str[2 * b - 1]) + HexValue(str[2 * b])]

\* U256::from_big_endian(bytes)
RECURSIVE FromBigEndian(_)
FromBigEndian(bytes) ==
    IF Len(bytes) = 0 THEN 0
    ELSE 256 * FromBigEndian(SubSeq(bytes, 1, Len(bytes) - 1)) + bytes[Len(bytes)]

\* is_valid_solution accepting only solutions strictly below the target
IsValidSolution_strict(solution, d) ==
    FromBigEndian(solution) < FromBigEndian(HexDecode(TargetString(d)))

\* GoldenTicket::is_valid_solution(solution, difficulty)
IsValidSolution(solution, d) ==
    FromBigEndian(solution) <= FromBigEndian(HexDecode(TargetString(d)))

\* is_valid_solution is called on the solution and the difficulty
TicketCheck ==
    /\ gt.stage = "input"
    /\ gt' = [gt EXCEPT !.stage = "checked",
                        !.valid = IsValidSolution(gt.solution, gt.difficulty)]
    /\ UNCHANGED <<routingVars, lockVars, sy, pipe, con, mi, dataVars>>

InitTicket ==
    gt \in {[stage |-> "input", solution |-> solution, difficulty |-> d, valid |-> FALSE] :
            solution \in Solutions, d \in Difficulties}

TicketInit ==
    /\ InitRouting /\ InitLocksIdle /\ InitSyncIdle
    /\ pipe = <<>> /\ con = <<>> /\ mi = <<>> /\ InitTicket /\ InitDataIdle

TicketSteps == TicketCheck

SpecTicket == TicketInit /\ [][TicketSteps]_vars

\* the nibble at index i (from 0) of the difficulty target, as the design
\* describes it
TargetNibble(d, i) ==
    IF i < d \div 16 THEN 0
    ELSE IF i = d \div 16 THEN 15 - (d % 16)
    ELSE 15
RECURSIVE Pow(_, _)
Pow(b, e) == IF e = 0 THEN 1 ELSE b * Pow(b, e - 1)
\* the target and a solution as unsigned big-endian integers
TargetUint(d) ==
    LET RECURSIVE Sum(_)
        Sum(i) == IF i = NibbleCount THEN 0
                  ELSE TargetNibble(d, i) * Pow(16, NibbleCount - 1 - i) + Sum(i + 1)
    IN  Sum(0)
SolutionUint(sol) ==
    LET RECURSIVE Sum(_)
        Sum(k) == IF k > Len(sol) THEN 0
                  ELSE sol[k] * Pow(256, Len(sol) - k) + Sum(k + 1)
    IN  Sum(1)

\* C20: for every difficulty d, is_valid_solution(solution, d) is true
\* exactly when the solution, read as an unsigned big-endian integer, is at
\* most the target whose nibbles below index d/16 are 0, whose nibble at
\* index d/16 (if there is one) is 15 - (d mod 16) and whose other nibbles
\* are F; for d = 0 every solution is valid.
C20_ValidIffAtMostTarget ==
    gt.stage = "checked" =>
        /\ gt.valid <=> (SolutionUint(gt.solution) <= TargetUint(gt.difficulty))
        /\ gt.difficulty = 0 => gt.valid

\* a solution equal to a target with a leading zero nibble and a final digit
\* of E is accepted
C20_Witness ==
    /\ gt.stage = "checked"
    /\ gt.difficulty \div 16 = 1 /\ gt.difficulty % 16 = 1
    /\ SolutionUint(gt.solution) = TargetUint(gt.difficulty)
    /\ gt.valid

\* C21: is_valid_solution(s, d) is monotone in d: a solution valid at a
\* difficulty d is valid at every difficulty d' < d.
C21_MonotoneInDifficulty ==
    (gt.stage = "checked" /\ gt.valid) =>
        \A d2 \in 0..(gt.difficulty - 1) : IsValidSolution(gt.solution, d2)

\* a non-zero solution accepted past the first leading zero nibble
C21_Witness ==
    /\ gt.stage = "checked"
    /\ gt.valid
    /\ gt.difficulty > 16
    /\ FromBigEndian(gt.solution) > 0

\* every hash of HashBytes bytes, and how many of them a difficulty accepts
AllHashes == [1..HashBytes -> 0..255]
AcceptedCount(d) == Cardinality({s \in AllHashes : IsValidSolution(s, d)})

\* C22: each unit of difficulty halves the acceptance space: the number of
\* solutions accepted at difficulty d + 1 is half the number accepted at d.
C22_EachUnitHalves ==
    gt.stage = "checked" =>
        2 * AcceptedCount(gt.difficulty + 1) = AcceptedCount(gt.difficulty)

\* the nibbles of a byte string, high nibble first, and its leading zero
\* nibbles
Nibbles(bytes) ==
    [k \in 1..(2 * Len(bytes)) |->
        IF k % 2 = 1 THEN bytes[(k + 1) \div 2] \div 16 ELSE bytes[k \div 2] % 16]
LeadingZeroNibbles(bytes) ==
    LET n == Nibbles(bytes)
    IN  Cardinality({k \in 1..Len(n) : \A j \in 1..k : n[j] = 0})

\* C23: the target produced for a difficulty d decodes back to d: its count
\* of leading zero nibbles is d / 16 and the nibble after them is
\* 15 - (d mod 16), and no other difficulty produces the same target.
C23_EncodingRoundTrip ==
    gt.stage = "checked" =>
        LET d == gt.difficulty
            target == HexDecode(TargetString(d))
        IN  /\ LeadingZeroNibbles(target) = d \div 16
            /\ d \div 16 < NibbleCount =>
                    Nibbles(target)[d \div 16 + 1] = 15 - (d % 16)
            /\ \A d2 \in Difficulties \ {d} : HexDecode(TargetString(d2)) # target

(***************************************************************************)
(* SpecMining: the Mining processor, one action per handler                  *)
(* (miner_controller.rs).                                                    *)
(*   mi.miner_timer, mi.new_miner_event_received   the processor's fields    *)
(*   mi.target, mi.difficulty                      the Miner                 *)
(*   mi.last    the handler that ran last and what it did                    *)
(*   mi.event   the last LongestChainBlockAdded handled: <<hash, difficulty>> *)
(*   mi.previous the LongestChainBlockAdded handled before that one          *)
(*   mi.since   the ticks since then: how many, whether all were 100 ms,     *)
(*              how many events came since the last attempt (and before it), *)
(*              and the target of the golden ticket emitted, if any          *)
(***************************************************************************)
MaxHash == 2            \* block hashes 1..MaxHash
MaxTicks == 3           \* ticks counted after an event

\* `const MINER_INTERVAL: u128 = 100_000`
MinerInterval == 100000
\* the durations a tick is given, in microseconds
MinerTickDurations == {50000, 100000, 150000}
MinerDifficulties == {0, 1}

NoAttempt == [made |-> FALSE, target |-> ZeroHash, difficulty |-> 0, ticket |-> ZeroHash]

\* whether the candidate solution of an attempt meets the difficulty: the
\* solution is the hash of the target, random bytes and the public key
MineOutcomes(d) == {IsValidSolution(solution, d) : solution \in Solutions}

\* miner.mine(sender_to_mempool): a candidate solution for the miner's
\* target; a NewGoldenTicket for that target is sent if it meets the
\* difficulty (found)
Mine(m, found) ==
    [made |-> TRUE, target |-> m.target, difficulty |-> m.difficulty,
     ticket |-> IF found THEN m.target ELSE ZeroHash]

\* OnLongestChainBlockAdded keeping the first event of an armed miner
OnLongestChainBlockAdded_firstWins(m, hash, difficulty) ==
    IF m.new_miner_event_received THEN m
    ELSE [m EXCEPT !.difficulty = difficulty, !.target = hash,
                   !.new_miner_event_received = TRUE]

\* process_event(MinerEvent::LongestChainBlockAdded { hash, difficulty })
OnLongestChainBlockAdded(m, hash, difficulty) ==
    [m EXCEPT !.difficulty = difficulty, !.target = hash,
              !.new_miner_event_received = TRUE]

\* AccumulateTimer restarting from the tick's duration
AccumulateTimer_restart(timer, dt) == dt

\* `self.miner_timer += duration.as_micros()`
AccumulateTimer(timer, dt) == timer + dt

\* ExceedsInterval firing when the interval is reached
ExceedsInterval_reached(timer) == timer >= MinerInterval

\* `if self.miner_timer > MINER_INTERVAL`
ExceedsInterval(timer) == timer > MinerInterval

\* process_timer_event leaving the timer as accumulated after an attempt
MinerTick_keepsTimer(m, dt, found) ==
    IF m.new_miner_event_received
    THEN IF ExceedsInterval(AccumulateTimer(m.miner_timer, dt))
         THEN [m EXCEPT !.miner_timer = AccumulateTimer(m.miner_timer, dt),
                        !.new_miner_event_received = FALSE,
                        !.last = [kind |-> "tick", dt |-> dt, attempt |-> Mine(m, found)]]
         ELSE [m EXCEPT !.miner_timer = AccumulateTimer(m.miner_timer, dt),
                        !.last = [kind |-> "tick", dt |-> dt, attempt |-> NoAttempt]]
    ELSE [m EXCEPT !.last = [kind |-> "tick", dt |-> dt, attempt |-> NoAttempt]]

\* process_timer_event leaving the processor armed after an attempt
MinerTick_staysArmed(m, dt, found) ==
    IF m.new_miner_event_received
    THEN IF ExceedsInterval(AccumulateTimer(m.miner_timer, dt))
         THEN [m EXCEPT !.miner_timer = 0,
                        !.last = [kind |-> "tick", dt |-> dt, attempt |-> Mine(m, found)]]
         ELSE [m EXCEPT !.miner_timer = AccumulateTimer(m.miner_timer, dt),
                        !.last = [kind |-> "tick", dt |-> dt, attempt |-> NoAttempt]]
    ELSE [m EXCEPT !.last = [kind |-> "tick", dt |-> dt, attempt |-> NoAttempt]]

\* MinerController::process_timer_event
MinerTick(m, dt, found) ==
    IF m.new_miner_event_received
    THEN IF ExceedsInterval(AccumulateTimer(m.miner_timer, dt))
         THEN [m EXCEPT !.miner_timer = 0, !.new_miner_event_received = FALSE,
                        !.last = [kind |-> "tick", dt |-> dt, attempt |-> Mine(m, found)]]
         ELSE [m EXCEPT !.miner_timer = AccumulateTimer(m.miner_timer, dt),
                        !.last = [kind |-> "tick", dt |-> dt, attempt |-> NoAttempt]]
    ELSE [m EXCEPT !.last = [kind |-> "tick", dt |-> dt, attempt |-> NoAttempt]]

MiningTimerTick ==
    /\ \E dt \in MinerTickDurations, found \in MineOutcomes(mi.difficulty) :
          LET m == MinerTick(mi, dt, found) IN
          mi' = [m EXCEPT !.since =
                    [n |-> IF @.n < MaxTicks THEN @.n + 1 ELSE @.n,
                     all100 |-> @.all100 /\ dt = 100000,
                     events |-> IF m.last.attempt.made THEN 0 ELSE @.events,
                     attempted |-> IF m.last.attempt.made THEN @.events ELSE @.attempted,
                     ticket |-> IF m.last.attempt.ticket # ZeroHash
                                THEN m.last.attempt.ticket ELSE @.ticket]]
    /\ UNCHANGED <<routingVars, lockVars, sy, pipe, con, gt, dataVars>>

MiningLongestChainBlockAdded ==
    /\ \E hash \in 1..MaxHash, difficulty \in MinerDifficulties :
          mi' = [OnLongestChainBlockAdded(mi, hash, difficulty) EXCEPT
                    !.last = [kind |-> "LongestChainBlockAdded", dt |-> 0,
                              attempt |-> NoAttempt],
                    !.event = <<hash, difficulty>>,
                    !.previous = mi.event,
                    !.since = [n |-> 0, all100 |-> TRUE,
                               events |-> IF @.events < 2 THEN @.events + 1 ELSE 2,
                               attempted |-> @.attempted,
                               ticket |-> ZeroHash]]
    /\ UNCHANGED <<routingVars, lockVars, sy, pipe, con, gt, dataVars>>

\* MinerController as constructed: timer 0, not armed
InitMining ==
    mi = [miner_timer |-> 0, new_miner_event_received |-> FALSE,
          target |-> ZeroHash, difficulty |-> 0,
          last |-> [kind |-> "none", dt |-> 0, attempt |-> NoAttempt],
          event |-> <<ZeroHash, 0>>, previous |-> <<ZeroHash, 0>>,
          since |-> [n |-> 0, all100 |-> TRUE, events |-> 0, attempted |-> 0,
                     ticket |-> ZeroHash]]

MiningInit ==
    /\ InitRouting /\ InitLocksIdle /\ InitSyncIdle
    /\ pipe = <<>> /\ con = <<>> /\ InitMining /\ gt = <<>> /\ InitDataIdle

MiningNext ==
    \/ MiningTimerTick
    \/ MiningLongestChainBlockAdded

SpecMining == MiningInit /\ [][MiningNext]_vars

\* C17: after LongestChainBlockAdded{hash, difficulty} is handled,
\* miner.target = hash, miner.difficulty = difficulty and the processor is
\* armed; a mining attempt uses the hash and difficulty of the last event
\* handled before it.
C17_LastEventSetsMiner ==
    /\ mi.last.kind = "LongestChainBlockAdded" =>
          (/\ mi.target = mi.event[1]
           /\ mi.difficulty = mi.event[2]
           /\ mi.new_miner_event_received)
    /\ mi.last.attempt.made =>
          (/\ mi.last.attempt.target = mi.event[1]
           /\ mi.last.attempt.difficulty = mi.event[2])

\* an attempt made after two events with different hashes and difficulties,
\* the second handled while the processor was armed
C17_Witness ==
    /\ mi.last.attempt.made
    /\ mi.since.attempted = 2
    /\ mi.previous[1] # ZeroHash
    /\ mi.previous[1] # mi.event[1] /\ mi.previous[2] # mi.event[2]
    /\ mi.last.attempt.target = mi.event[1]
    /\ mi.last.attempt.difficulty = mi.event[2]

\* C18: a Mining tick(dt) makes a mining attempt if and only if the
\* processor is armed and miner_timer + dt strictly exceeds 100_000; then
\* miner_timer is reset to 0 and the armed flag cleared; a tick makes at most
\* one attempt; a tick while not armed changes nothing.
C18_AttemptIffArmedAndExceeded ==
    [][mi'.last.kind = "tick" =>
          LET due == mi.new_miner_event_received /\ mi.miner_timer + mi'.last.dt > 100000
          IN  /\ mi'.last.attempt.made <=> due
              /\ due => (mi'.miner_timer = 0 /\ ~mi'.new_miner_event_received)
              /\ (mi.new_miner_event_received /\ ~due) =>
                    (/\ mi'.miner_timer = mi.miner_timer + mi'.last.dt
                     /\ mi'.new_miner_event_received)
              /\ ~mi.new_miner_event_received =>
                    (/\ mi'.miner_timer = mi.miner_timer
                     /\ ~mi'.new_miner_event_received
                     /\ mi'.last.attempt = NoAttempt)
              /\ mi'.target = mi.target /\ mi'.difficulty = mi.difficulty]_vars

\* a tick that brings the timer to exactly the interval makes no attempt
C18_Witness ==
    /\ mi.last.kind = "tick"
    /\ mi.new_miner_event_received
    /\ mi.miner_timer = MinerInterval
    /\ ~mi.last.attempt.made

\* C19: after LongestChainBlockAdded{H, 0} is delivered and the processor is
\* ticked with dt = 100 ms, a NewGoldenTicket with target H has been emitted
\* by the second tick.
C19_GoldenTicketWithinTwoTicks ==
    (/\ mi.event[1] # ZeroHash /\ mi.event[2] = 0
     /\ mi.since.all100 /\ mi.since.n >= 2)
        => mi.since.ticket = mi.event[1]

C19_Witness ==
    /\ mi.event[1] # ZeroHash /\ mi.event[2] = 0
    /\ mi.since.all100 /\ mi.since.n = 2
    /\ mi.last.attempt.made
    /\ mi.last.attempt.ticket = mi.event[1]

\* C32: a mining attempt that finds no valid solution is retried: with the
\* target unchanged and no golden ticket emitted for it, the processor stays
\* armed, so that further ticks keep making attempts without another
\* LongestChainBlockAdded event.
C32_FailedAttemptIsRetried ==
    (mi.last.attempt.made /\ mi.last.attempt.ticket = ZeroHash)
        => mi.new_miner_event_received

\* C32 amended: a mining attempt, whether or not it finds a valid solution,
\* clears the armed flag and resets the timer; every attempt follows a
\* LongestChainBlockAdded event handled since the attempt before it, so a
\* failed attempt is not retried until another event arms the processor.
C32_OneAttemptPerEvent ==
    /\ mi.last.attempt.made =>
          (/\ ~mi.new_miner_event_received
           /\ mi.miner_timer = 0
           /\ mi.since.attempted >= 1)
    /\ (mi.last.kind = "tick" /\ mi.since.events = 0) => ~mi.new_miner_event_received

\* an event at a difficulty that can fail, three 100 ms ticks after it, no
\* golden ticket: the attempt of the second tick failed and the third tick
\* made none
C32_Witness ==
    /\ mi.event[1] # ZeroHash /\ mi.event[2] = 1
    /\ mi.since.all100 /\ mi.since.n = 3
    /\ mi.since.ticket = ZeroHash
    /\ mi.since.events = 0
    /\ mi.last.kind = "tick" /\ ~mi.last.attempt.made
    /\ ~mi.new_miner_event_received

\* C39: in every reachable state of the Mining processor miner_timer = 0
\* whenever the armed flag is false, and after every timer tick miner_timer
\* is at most 100_000 microseconds.
C39_TimerZeroUnlessArmed ==
    /\ ~mi.new_miner_event_received => mi.miner_timer = 0
    /\ mi.last.kind = "tick" => mi.miner_timer <= 100000

\* a 150 ms tick of an armed processor that had accumulated 50 ms: the
\* attempt is made and the timer is back at 0
C39_Witness ==
    /\ mi.last.kind = "tick" /\ mi.last.dt = 150000
    /\ mi.last.attempt.made
    /\ mi.since.n = 2 /\ ~mi.since.all100
    /\ mi.miner_timer = 0
    /\ ~mi.new_miner_event_received

(***************************************************************************)
(* SpecCodec: the byte layouts of a golden ticket in a transaction message   *)
(* (golden_ticket.rs) and of the wallet on disk (wallet.rs).                 *)
(*   cod.kind      "ticket" or "wallet"                                      *)
(*   cod.value     the object serialized                                     *)
(*   cod.bytes     the bytes produced                                        *)
(*   cod.restored  the object the bytes were read back into                  *)
(***************************************************************************)
HashSize == 32          \* SaitoHash
PublicKeySize == 33     \* SaitoPublicKey
PrivateKeySize == 32    \* SaitoPrivateKey
WALLET_SIZE == 65

\* byte arrays: a first byte and a step from each byte to the next
ByteStarts == {0, 1, 255}
ByteSteps == {0, 1}
Bytes(n, a, b) == [k \in 1..n |-> (a + b * (k - 1)) % 256]
ByteArrays(n) == {Bytes(n, a, b) : a \in ByteStarts, b \in ByteSteps}

\* bytes[from..to]
Slice(bytes, from, to) == SubSeq(bytes, from + 1, to)

\* GoldenTicket::serialize_for_transaction
SerializeForTransaction(g) == g.target \o g.random \o g.publickey

\* deserialize_for_transaction reading random from the start of the bytes
DeserializeForTransaction_sameSlice(bytes) ==
    [target |-> Slice(bytes, 0, 32),
     random |-> Slice(bytes, 0, 32),
     publickey |-> Slice(bytes, 64, 97)]

\* GoldenTicket::deserialize_for_transaction
DeserializeForTransaction(bytes) ==
    [target |-> Slice(bytes, 0, 32),
     random |-> Slice(bytes, 32, 64),
     publickey |-> Slice(bytes, 64, 97)]

\* serialize_for_disk writing the publickey first
SerializeForDisk_publickeyFirst(w) == w.publickey \o w.privatekey

\* Wallet::serialize_for_disk
SerializeForDisk(w) == w.privatekey \o w.publickey

\* Wallet::deserialize_for_disk(&mut self, bytes)
DeserializeForDisk(w, bytes) ==
    [w EXCEPT !.privatekey = Slice(bytes, 0, 32),
              !.publickey = Slice(bytes, 32, 65)]

\* Wallet::new(): a wallet with keys of its own
NewWallet == [privatekey |-> Bytes(PrivateKeySize, 2, 3), publickey |-> Bytes(PublicKeySize, 3, 2)]

GoldenTickets ==
    [target : ByteArrays(HashSize), random : ByteArrays(HashSize),
     publickey : ByteArrays(PublicKeySize)]
Wallets == [privatekey : ByteArrays(PrivateKeySize), publickey : ByteArrays(PublicKeySize)]

GoldenTicketSerialize ==
    /\ cod.kind = "ticket" /\ cod.stage = "input"
    /\ cod' = [cod EXCEPT !.stage = "serialized",
                          !.bytes = SerializeForTransaction(cod.value)]
    /\ UNCHANGED <<routingVars, lockVars, sy, pipe, con, mi, gt, wal, drv>>

GoldenTicketDeserialize ==
    /\ cod.kind = "ticket" /\ cod.stage = "serialized"
    /\ cod' = [cod EXCEPT !.stage = "restored",
                          !.restored = DeserializeForTransaction(cod.bytes)]
    /\ UNCHANGED <<routingVars, lockVars, sy, pipe, con, mi, gt, wal, drv>>

WalletSerializeForDisk ==
    /\ cod.kind = "wallet" /\ cod.stage = "input"
    /\ cod' = [cod EXCEPT !.stage = "serialized",
                          !.bytes = SerializeForDisk(cod.value)]
    /\ UNCHANGED <<routingVars, lockVars, sy, pipe, con, mi, gt, wal, drv>>

WalletDeserializeForDisk ==
    /\ cod.kind = "wallet" /\ cod.stage = "serialized"
    /\ cod' = [cod EXCEPT !.stage = "restored",
                          !.restored = DeserializeForDisk(cod.restored, cod.bytes)]
    /\ UNCHANGED <<routingVars, lockVars, sy, pipe, con, mi, gt, wal, drv>>

InitCodec ==
    \/ cod \in {[kind |-> "ticket", stage |-> "input", value |-> g, bytes |-> <<>>,
                 restored |-> <<>>] : g \in GoldenTickets}
    \/ cod \in {[kind |-> "wallet", stage |-> "input", value |-> w, bytes |-> <<>>,
                 restored |-> NewWallet] : w \in Wallets}

CodecInit ==
    /\ InitRouting /\ InitLocksIdle /\ InitSyncIdle
    /\ pipe = <<>> /\ con = <<>> /\ mi = <<>> /\ gt = <<>> /\ InitCodec /\ wal = <<>> /\ drv = <<>>

CodecNext ==
    \/ GoldenTicketSerialize
    \/ GoldenTicketDeserialize
    \/ WalletSerializeForDisk
    \/ WalletDeserializeForDisk

SpecCodec == CodecInit /\ [][CodecNext]_vars

\* C24: serialize_for_transaction yields exactly 97 bytes laid out as
\* target (32), random (32), publickey (33), and deserialize_for_transaction
\* of those bytes has the same target, random and publickey as the ticket.
C24_GoldenTicketRoundTrip ==
    cod.kind = "ticket" =>
        /\ cod.stage \in {"serialized", "restored"} =>
              /\ Len(cod.bytes) = 97
              /\ \A k \in 1..32 : cod.bytes[k] = cod.value.target[k]
              /\ \A k \in 1..32 : cod.bytes[32 + k] = cod.value.random[k]
              /\ \A k \in 1..33 : cod.bytes[64 + k] = cod.value.publickey[k]
        /\ cod.stage = "restored" =>
              /\ cod.restored.target = cod.value.target
              /\ cod.restored.random = cod.value.random
              /\ cod.restored.publickey = cod.value.publickey

\* a ticket whose target, random and publickey start with different bytes
\* has been serialized and read back
C24_Witness ==
    /\ cod.kind = "ticket" /\ cod.stage = "restored"
    /\ cod.value.target[1] # cod.value.random[1]
    /\ cod.value.random[1] # cod.value.publickey[1]
    /\ cod.value.target[2] # cod.value.target[1]
    /\ cod.restored = cod.value

\* C30: serialize_for_disk yields exactly 65 bytes (WALLET_SIZE), the 32-byte
\* privatekey followed by the 33-byte publickey, and deserialize_for_disk of
\* those bytes restores the same privatekey and publickey.
C30_WalletDiskRoundTrip ==
    cod.kind = "wallet" =>
        /\ cod.stage \in {"serialized", "restored"} =>
              /\ Len(cod.bytes) = 65 /\ Len(cod.bytes) = WALLET_SIZE
              /\ \A k \in 1..32 : cod.bytes[k] = cod.value.privatekey[k]
              /\ \A k \in 1..33 : cod.bytes[32 + k] = cod.value.publickey[k]
        /\ cod.stage = "restored" =>
              /\ cod.restored.privatekey = cod.value.privatekey
              /\ cod.restored.publickey = cod.value.publickey

\* a wallet whose keys differ from each other and from the keys of the
\* wallet they are loaded into has been written and read back
C30_Witness ==
    /\ cod.kind = "wallet" /\ cod.stage = "restored"
    /\ cod.value.privatekey[1] # cod.value.publickey[1]
    /\ cod.value.privatekey # NewWallet.privatekey
    /\ cod.restored = cod.value

(***************************************************************************)
(* SpecWallet: the Wallet's slip lists under chain reorganization and slip   *)
(* deletion (wallet.rs).  The wallet follows a chain of blocks of one        *)
(* transaction each, of at most one input and two outputs; the transaction   *)
(* of the block at height h has hash_for_signature h, its outputs carry that *)
(* hash as uuid and their position as slip_ordinal, and its inputs spend     *)
(* outputs of earlier blocks.                                                *)
(*   wal.publickey, wal.slips, wal.staked_slips   the Wallet's fields        *)
(*   wal.chain  the blocks added and not undone, oldest first                *)
(*   wal.last   the call made last: its arguments, the lists before it       *)
(*              (pre) and, for an undo that directly follows the add of the  *)
(*              same block (inverse), the lists before that add (w0)         *)
(*   wal.n      the calls made                                               *)
(***************************************************************************)
MaxChain == 2           \* blocks on the chain
MaxWalletOps == 3       \* calls made on the wallet

MyPublicKey == "me"
OtherPublicKey == "other"

\* the slip types on_chain_reorganization deletes from the staked list, and
\* the ones add_slip pushes to it
StakedInputTypes ==
    {"StakerDeposit", "StakerOutput", "StakerWithdrawalStaking", "StakerWithdrawalPending"}
StakedOutputTypes == {"StakerDeposit", "StakerOutput"}

\* WalletSlip::new()
NewWalletSlip ==
    [uuid |-> ZeroHash, amount |-> 0, block_id |-> 0, lc |-> TRUE,
     slip_ordinal |-> 0, spent |-> FALSE]

\* a loop `for x in seq { w = F(w, x) }`
Fold(F(_, _), w, seq) ==
    LET f[i \in 0..Len(seq)] == IF i = 0 THEN w ELSE F(f[i - 1], seq[i])
    IN  f[Len(seq)]

\* Wallet::add_slip(block, transaction, slip, lc)
AddSlip(w, block, transaction, slip, lc) ==
    LET wallet_slip == [NewWalletSlip EXCEPT !.uuid = transaction.hash_for_signature,
                                             !.amount = slip.amount,
                                             !.slip_ordinal = slip.slip_ordinal,
                                             !.block_id = block.id,
                                             !.lc = lc]
    IN  IF slip.slip_type \in StakedOutputTypes
        THEN [w EXCEPT !.staked_slips = Append(@, wallet_slip)]
        ELSE [w EXCEPT !.slips = Append(@, wallet_slip)]

\* retain dropping the slips that match in uuid or in slip_ordinal
Retain_either(list, slip) ==
    SelectSeq(list, LAMBDA x : x.uuid # slip.uuid /\ x.slip_ordinal # slip.slip_ordinal)

\* Vec::retain with the closure of delete_slip and delete_staked_slip
Retain(list, slip) ==
    SelectSeq(list, LAMBDA x : x.uuid # slip.uuid \/ x.slip_ordinal # slip.slip_ordinal)

\* Wallet::delete_staked_slip(slip)
DeleteStakedSlip(w, slip) == [w EXCEPT !.staked_slips = Retain(@, slip)]

\* Wallet::delete_slip(slip)
DeleteSlip(w, slip) == [w EXCEPT !.slips = Retain(@, slip)]

\* `amount > 0 && publickey == self.get_publickey()`
IsOwn(w, slip) == slip.amount > 0 /\ slip.publickey = w.publickey

\* the longest-chain branch deleting every own input from the spendable list
LcInput_spendableOnly(w, input) ==
    IF IsOwn(w, input) THEN DeleteSlip(w, input) ELSE w

\* on_chain_reorganization, lc = true: the body of the loop over the inputs
LcInput(w, input) ==
    IF IsOwn(w, input)
    THEN IF input.slip_type \in StakedInputTypes
         THEN DeleteStakedSlip(w, input)
         ELSE DeleteSlip(w, input)
    ELSE w

\* on_chain_reorganization, lc = true: the body of the loop over the outputs
LcOutput(w, block, tx, output) ==
    IF IsOwn(w, output) THEN AddSlip(w, block, tx, output, TRUE) ELSE w

\* on_chain_reorganization, lc = false: the bodies of the two loops
UndoInput(w, block, tx, input) ==
    IF IsOwn(w, input) THEN AddSlip(w, block, tx, input, TRUE) ELSE w
UndoOutput(w, output) ==
    IF IsOwn(w, output) THEN DeleteSlip(w, output) ELSE w

\* Wallet::on_chain_reorganization(block, lc)
OnChainReorganization(w, block, lc) ==
    IF lc
    THEN Fold(LAMBDA w1, tx :
                  Fold(LAMBDA w3, output : LcOutput(w3, block, tx, output),
                       Fold(LAMBDA w2, input : LcInput(w2, input), w1, tx.inputs),
                       tx.outputs),
              w, block.transactions)
    ELSE Fold(LAMBDA w1, tx :
                  Fold(LAMBDA w3, output : UndoOutput(w3, output),
                       Fold(LAMBDA w2, input : UndoInput(w2, block, tx, input),
                            w1, tx.inputs),
                       tx.outputs),
              w, block.transactions)

\* ---- the blocks the wallet is given ----
\* what an output may be: whose it is, its type and its amount
Kind(publickey, slip_type, amount) ==
    [publickey |-> publickey, slip_type |-> slip_type, amount |-> amount]
OwnSlip == Kind(MyPublicKey, "Normal", 1)
OwnEmpty == Kind(MyPublicKey, "Normal", 0)
OtherSlip == Kind(OtherPublicKey, "Normal", 2)
OwnDeposit == Kind(MyPublicKey, "StakerDeposit", 2)
OwnStakerOutput == Kind(MyPublicKey, "StakerOutput", 1)
OutputKinds ==
    {<<>>, <<OwnSlip>>, <<OwnEmpty>>, <<OtherSlip>>, <<OwnDeposit>>, <<OwnStakerOutput>>,
     <<OwnSlip, OwnSlip>>, <<OwnSlip, OtherSlip>>, <<OtherSlip, OwnSlip>>,
     <<OwnEmpty, OwnSlip>>, <<OwnDeposit, OwnSlip>>, <<OwnSlip, OwnDeposit>>,
     <<OwnStakerOutput, OwnEmpty>>, <<OwnStakerOutput, OwnSlip>>,
     <<OtherSlip, OwnStakerOutput>>, <<OwnDeposit, OwnStakerOutput>>}

\* the output lists of the transaction with hash h
OutputsOf(h) ==
    {[k \in 1..Len(kinds) |-> [uuid |-> h, slip_ordinal |-> k - 1,
                               amount |-> kinds[k].amount,
                               publickey |-> kinds[k].publickey,
                               slip_type |-> kinds[k].slip_type]] :
     kinds \in OutputKinds}

\* the types an input spending an output may carry: the output's, or for a
\* staked output those create_staking_withdrawal_transaction gives it
InputTypes(t) ==
    IF t \in StakedOutputTypes
    THEN {t, "StakerWithdrawalStaking", "StakerWithdrawalPending"}
    ELSE {t}

ChainOutputs(chain) ==
    UNION {{chain[b].transactions[1].outputs[k] :
                k \in 1..Len(chain[b].transactions[1].outputs)} : b \in 1..Len(chain)}

\* the inputs that spend an output of a block of the chain
Spending(chain) ==
    UNION {{[o EXCEPT !.slip_type = t] : t \in InputTypes(o.slip_type)} :
           o \in ChainOutputs(chain)}

\* the input lists: no input, or one
InputsOf(chain) == {<<>>} \cup {<<input>> : input \in Spending(chain)}

\* the blocks that extend the chain
BlocksAt(chain) ==
    LET h == Len(chain) + 1
    IN  {[id |-> h,
          transactions |-> <<[hash_for_signature |-> h, inputs |-> ins,
                              outputs |-> outs]>>] :
         ins \in InputsOf(chain), outs \in OutputsOf(h)}

Lists(w) == [slips |-> w.slips, staked_slips |-> w.staked_slips]
NoLists == [slips |-> <<>>, staked_slips |-> <<>>]
Call(op, block, slip, pre, inverse, w0) ==
    [op |-> op, block |-> block, slip |-> slip, pre |-> pre, inverse |-> inverse, w0 |-> w0]

\* blockchain.add_block: on_chain_reorganization(block, true)
WalletAddBlock ==
    /\ wal.n < MaxWalletOps
    /\ Len(wal.chain) < MaxChain
    /\ \E block \in BlocksAt(wal.chain) :
          wal' = [OnChainReorganization(wal, block, TRUE) EXCEPT
                    !.chain = Append(@, block),
                    !.n = @ + 1,
                    !.last = Call("add", block, <<>>, Lists(wal), FALSE, NoLists)]
    /\ UNCHANGED <<routingVars, lockVars, sy, pipe, con, mi, gt, cod, drv>>

\* the chain unwinds its latest block: on_chain_reorganization(block, false)
WalletUndoBlock ==
    /\ wal.n < MaxWalletOps
    /\ Len(wal.chain) > 0
    /\ LET block == wal.chain[Len(wal.chain)]
       IN  wal' = [OnChainReorganization(wal, block, FALSE) EXCEPT
                     !.chain = SubSeq(@, 1, Len(@) - 1),
                     !.n = @ + 1,
                     !.last = Call("undo", block, <<>>, Lists(wal),
                                   wal.last.op = "add",
                                   IF wal.last.op = "add" THEN wal.last.pre ELSE NoLists)]
    /\ UNCHANGED <<routingVars, lockVars, sy, pipe, con, mi, gt, cod, drv>>

\* delete_slip(slip) on a slip of the chain
WalletDeleteSlip ==
    /\ wal.n < MaxWalletOps
    /\ \E slip \in ChainOutputs(wal.chain) :
          wal' = [DeleteSlip(wal, slip) EXCEPT
                    !.n = @ + 1,
                    !.last = Call("delete_slip", <<>>, slip, Lists(wal), FALSE, NoLists)]
    /\ UNCHANGED <<routingVars, lockVars, sy, pipe, con, mi, gt, cod, drv>>

\* delete_staked_slip(slip) on a slip of the chain
WalletDeleteStakedSlip ==
    /\ wal.n < MaxWalletOps
    /\ \E slip \in ChainOutputs(wal.chain) :
          wal' = [DeleteStakedSlip(wal, slip) EXCEPT
                    !.n = @ + 1,
                    !.last = Call("delete_staked_slip", <<>>, slip, Lists(wal), FALSE,
                                  NoLists)]
    /\ UNCHANGED <<routingVars, lockVars, sy, pipe, con, mi, gt, cod, drv>>

\* Wallet::new(), before any block
InitWallet ==
    wal = [publickey |-> MyPublicKey, slips |-> <<>>, staked_slips |-> <<>>,
           chain |-> <<>>, n |-> 0,
           last |-> Call("none", <<>>, <<>>, NoLists, FALSE, NoLists)]

WalletInit ==
    /\ InitRouting /\ InitLocksIdle /\ InitSyncIdle
    /\ pipe = <<>> /\ con = <<>> /\ mi = <<>> /\ gt = <<>> /\ cod = <<>> /\ InitWallet /\ drv = <<>>

WalletNext ==
    \/ WalletAddBlock
    \/ WalletUndoBlock
    \/ WalletDeleteSlip
    \/ WalletDeleteStakedSlip

SpecWallet == WalletInit /\ [][WalletNext]_vars

\* ---- claims about the slip lists ----
HasSlip(list, uuid, slip_ordinal) ==
    \E k \in 1..Len(list) : list[k].uuid = uuid /\ list[k].slip_ordinal = slip_ordinal
Matches(x, slip) == x.uuid = slip.uuid /\ x.slip_ordinal = slip.slip_ordinal
SlipsOf(seq) == {seq[k] : k \in 1..Len(seq)}
\* the elements of a list at the indices of a set, in the list's order
Restrict(list, keep) ==
    [j \in 1..Cardinality(keep) |->
        list[CHOOSE k \in keep : Cardinality({m \in keep : m < k}) = j - 1]]

\* C25: after on_chain_reorganization(B, true), each input of B with
\* amount > 0 and the wallet's publickey is absent from the list selected by
\* its slip type (the staked list for the staking types, the spendable list
\* otherwise); each output with amount > 0 and the wallet's publickey is a
\* WalletSlip placed after the slips held before, which stay in order; and
\* the slips of other publickeys change nothing.
C25_LongestChainAdd ==
    wal.last.op = "add" =>
        LET tx == wal.last.block.transactions[1]
            pre == wal.last.pre
            ownIn == {i \in SlipsOf(tx.inputs) :
                        i.amount > 0 /\ i.publickey = wal.publickey}
            ownOut == {o \in SlipsOf(tx.outputs) :
                        o.amount > 0 /\ o.publickey = wal.publickey}
            keptSlips ==
                Restrict(pre.slips,
                         {k \in 1..Len(pre.slips) :
                            ~\E i \in ownIn : /\ i.slip_type \notin StakedInputTypes
                                              /\ Matches(pre.slips[k], i)})
            keptStaked ==
                Restrict(pre.staked_slips,
                         {k \in 1..Len(pre.staked_slips) :
                            ~\E i \in ownIn : /\ i.slip_type \in StakedInputTypes
                                              /\ Matches(pre.staked_slips[k], i)})
            Placed(list, kept, o) ==
                \E k \in (Len(kept) + 1)..Len(list) :
                    /\ list[k].uuid = tx.hash_for_signature
                    /\ list[k].slip_ordinal = o.slip_ordinal
                    /\ list[k].amount = o.amount
        IN  /\ \A i \in ownIn :
                  ~HasSlip(IF i.slip_type \in StakedInputTypes
                           THEN wal.staked_slips ELSE wal.slips,
                           i.uuid, i.slip_ordinal)
            /\ Len(wal.slips) >= Len(keptSlips)
            /\ Len(wal.staked_slips) >= Len(keptStaked)
            /\ SubSeq(wal.slips, 1, Len(keptSlips)) = keptSlips
            /\ SubSeq(wal.staked_slips, 1, Len(keptStaked)) = keptStaked
            /\ \A o \in ownOut :
                  Placed(wal.slips, keptSlips, o) \/ Placed(wal.staked_slips, keptStaked, o)
            /\ (Len(wal.slips) - Len(keptSlips))
                 + (Len(wal.staked_slips) - Len(keptStaked)) = Cardinality(ownOut)
            /\ (ownIn = {} /\ ownOut = {}) => Lists(wal) = pre

\* a block that withdraws a staked slip the wallet held and pays the wallet
\* and someone else, added to a wallet that held a spendable slip too
C25_Witness ==
    /\ wal.last.op = "add"
    /\ LET tx == wal.last.block.transactions[1]
       IN  /\ \E k \in 1..Len(tx.inputs) :
                 /\ tx.inputs[k].slip_type = "StakerWithdrawalStaking"
                 /\ HasSlip(wal.last.pre.staked_slips, tx.inputs[k].uuid,
                            tx.inputs[k].slip_ordinal)
           /\ \E k \in 1..Len(tx.outputs) : tx.outputs[k].publickey = OtherPublicKey
           /\ \E k \in 1..Len(tx.outputs) :
                 tx.outputs[k].publickey = MyPublicKey /\ tx.outputs[k].amount > 0
    /\ Len(wal.last.pre.slips) = 1
    /\ Len(wal.slips) = 2
    /\ wal.staked_slips = <<>>

\* the slips of a list as the claim identifies them
SlipSet(list) ==
    {<<list[k].uuid, list[k].slip_ordinal, list[k].amount>> : k \in 1..Len(list)}

\* C26: on_chain_reorganization(B, true) followed by
\* on_chain_reorganization(B, false) leaves the wallet holding the same set
\* of slips, identified by (uuid, slip_ordinal) with the same amounts, in the
\* spendable and the staked lists as before the two calls.
C26_UndoIsInverseOfAdd ==
    (wal.last.op = "undo" /\ wal.last.inverse) =>
        /\ SlipSet(wal.slips) = SlipSet(wal.last.w0.slips)
        /\ SlipSet(wal.staked_slips) = SlipSet(wal.last.w0.staked_slips)

\* C27: delete_slip(s) and delete_staked_slip(s) remove from their list every
\* WalletSlip whose uuid and slip_ordinal both equal those of s and no other,
\* keep the order of the remaining slips, and change nothing when applied a
\* second time.
C27_DeleteMatchesBothAndIsIdempotent ==
    /\ wal.last.op = "delete_slip" =>
          LET pre == wal.last.pre.slips
          IN  /\ wal.slips = Restrict(pre, {k \in 1..Len(pre) :
                                               ~Matches(pre[k], wal.last.slip)})
              /\ wal.staked_slips = wal.last.pre.staked_slips
              /\ DeleteSlip(wal, wal.last.slip) = wal
    /\ wal.last.op = "delete_staked_slip" =>
          LET pre == wal.last.pre.staked_slips
          IN  /\ wal.staked_slips = Restrict(pre, {k \in 1..Len(pre) :
                                                      ~Matches(pre[k], wal.last.slip)})
              /\ wal.slips = wal.last.pre.slips
              /\ DeleteStakedSlip(wal, wal.last.slip) = wal

\* the first of two slips of one transaction is deleted and the second,
\* which has the same uuid, stays
C27_Witness ==
    /\ wal.last.op = "delete_slip"
    /\ Len(wal.last.pre.slips) = 2
    /\ Len(wal.slips) = 1
    /\ wal.slips[1].uuid = wal.last.slip.uuid
    /\ wal.slips[1].slip_ordinal # wal.last.slip.slip_ordinal
    /\ wal.last.slip.slip_ordinal = 0

(***************************************************************************)
(* SpecSpend: the Wallet choosing slips to spend (wallet.rs) and the         *)
(* create_transaction entry point (saitowasm.rs).  The wallet starts with    *)
(* unspent slips, as on_chain_reorganization appends them.                   *)
(*   wal.publickey, wal.slips, wal.staked_slips   the Wallet's fields        *)
(*   wal.last   the call made last: the amount asked for, the spendable list *)
(*              before it (pre) and what the call returned                   *)
(*   wal.n      the calls made                                               *)
(*   wal.hist   per call made, oldest first: the inputs it returned and the   *)
(*              available balance before and after it                        *)
(***************************************************************************)
MaxSlips == 3           \* slips in the spendable list
MaxSpends == 2          \* calls made on the wallet

SlipAmounts == {0, 1, 2}
\* the amounts asked for: up to more than the wallet can hold
Requests == 0..(2 * MaxSlips + 1)

\* Slip::new()
NewSlip ==
    [publickey |-> "none", uuid |-> ZeroHash, amount |-> 0, slip_ordinal |-> 0,
     slip_type |-> "Normal"]

\* Transaction::new()
NewTransaction == [inputs |-> <<>>, outputs |-> <<>>]

\* Wallet::get_available_balance()
GetAvailableBalance(w) ==
    Fold(LAMBDA balance, slip : IF ~slip.spent THEN balance + slip.amount ELSE balance,
         0, w.slips)

\* set_spent leaving the slip as it was
SetSpent_not(slip) == slip

\* `slip.set_spent(true)`
SetSpent(slip) == [slip EXCEPT !.spent = TRUE]

\* the loop going on while nolan_in is at most nolan_requested
NeedsMore_orEqual(nolan_in, nolan_requested) == nolan_in <= nolan_requested

\* `if nolan_in < nolan_requested`
NeedsMore(nolan_in, nolan_requested) == nolan_in < nolan_requested

\* Wallet::generate_slips(nolan_requested): the wallet after the call and the
\* (inputs, outputs) returned
GenerateSlips(w, nolan_requested) ==
    LET grab(acc, k) ==
            LET slip == acc.slips[k]
            IN  IF ~slip.spent /\ NeedsMore(acc.nolan_in, nolan_requested)
                THEN [nolan_in |-> acc.nolan_in + slip.amount,
                      inputs |-> Append(acc.inputs,
                                        [NewSlip EXCEPT !.publickey = w.publickey,
                                                        !.amount = slip.amount,
                                                        !.uuid = slip.uuid,
                                                        !.slip_ordinal = slip.slip_ordinal]),
                      slips |-> [acc.slips EXCEPT ![k] = SetSpent(@)]]
                ELSE acc
        grabbed == Fold(grab, [nolan_in |-> 0, inputs |-> <<>>, slips |-> w.slips],
                        [k \in 1..Len(w.slips) |-> k])
        nolan_out == IF grabbed.nolan_in > nolan_requested
                     THEN grabbed.nolan_in - nolan_requested
                     ELSE 0
        outputs == <<[NewSlip EXCEPT !.publickey = w.publickey, !.amount = nolan_out]>>
        placeholder == [NewSlip EXCEPT !.publickey = w.publickey, !.amount = 0,
                                       !.uuid = ZeroHash]
    IN  [wallet |-> [w EXCEPT !.slips = grabbed.slips],
         inputs |-> IF grabbed.inputs = <<>> THEN <<placeholder>> ELSE grabbed.inputs,
         outputs |-> IF outputs = <<>> THEN <<placeholder>> ELSE outputs]

\* Wallet::create_transaction_with_default_fees()
CreateTransactionWithDefaultFees(w) == NewTransaction

\* saitowasm create_transaction(): the Result handed to the caller
CreateTransaction(w) == [ok |-> TRUE, transaction |-> CreateTransactionWithDefaultFees(w)]

\* the types staking.validate_slip_in_stakers / validate_slip_in_pending
\* leave on the input of a withdrawal
WithdrawalTypes == {"StakerWithdrawalStaking", "StakerWithdrawalPending"}

\* Wallet::create_staking_withdrawal_transaction(staking): the wallet after
\* the call and the transaction returned
CreateStakingWithdrawalTransaction(w, slip_type) ==
    IF w.staked_slips = <<>>
    THEN [wallet |-> w, transaction |-> NewTransaction]
    ELSE LET slip == w.staked_slips[1]
             input == [NewSlip EXCEPT !.publickey = w.publickey,
                                      !.amount = slip.amount,
                                      !.uuid = slip.uuid,
                                      !.slip_ordinal = slip.slip_ordinal,
                                      !.slip_type = slip_type]
             output == [input EXCEPT !.slip_type = "Normal"]
         IN  [wallet |-> [w EXCEPT !.staked_slips[1] = SetSpent(@)],
              transaction |-> [inputs |-> <<input>>, outputs |-> <<output>>]]

\* one call in wal.hist
Made(op, inputs, before, after) ==
    [op |-> op, inputs |-> inputs, before |-> before, after |-> after]

Spend(op, amount, pre, inputs, outputs, result) ==
    [op |-> op, amount |-> amount, pre |-> pre, inputs |-> inputs, outputs |-> outputs,
     result |-> result]

WalletGenerateSlips ==
    /\ wal.n < MaxSpends
    /\ \E nolan_requested \in Requests :
          LET got == GenerateSlips(wal, nolan_requested)
          IN  wal' = [got.wallet EXCEPT
                        !.n = @ + 1,
                        !.last = Spend("generate_slips", nolan_requested, wal.slips,
                                       got.inputs, got.outputs, "none"),
                        !.hist = Append(@, Made("generate_slips", got.inputs,
                                                GetAvailableBalance(wal),
                                                GetAvailableBalance(got.wallet)))]
    /\ UNCHANGED <<routingVars, lockVars, sy, pipe, con, mi, gt, cod, drv>>

WalletCreateTransaction ==
    /\ wal.n < MaxSpends
    /\ LET got == CreateTransaction(wal)
       IN  wal' = [wal EXCEPT
                     !.n = @ + 1,
                     !.last = Spend("create_transaction", 0, wal.slips,
                                    got.transaction.inputs, got.transaction.outputs,
                                    IF got.ok THEN "Ok" ELSE "InsufficientFunds"),
                     !.hist = Append(@, Made("create_transaction", got.transaction.inputs,
                                             GetAvailableBalance(wal),
                                             GetAvailableBalance(wal)))]
    /\ UNCHANGED <<routingVars, lockVars, sy, pipe, con, mi, gt, cod, drv>>

WalletCreateStakingWithdrawal ==
    /\ wal.n < MaxSpends
    /\ \E slip_type \in WithdrawalTypes :
          LET got == CreateStakingWithdrawalTransaction(wal, slip_type)
          IN  wal' = [got.wallet EXCEPT
                        !.n = @ + 1,
                        !.last = Spend("create_staking_withdrawal", 0, wal.slips,
                                       got.transaction.inputs, got.transaction.outputs,
                                       "none"),
                        !.hist = Append(@, Made("create_staking_withdrawal",
                                                got.transaction.inputs,
                                                GetAvailableBalance(wal),
                                                GetAvailableBalance(got.wallet)))]
    /\ UNCHANGED <<routingVars, lockVars, sy, pipe, con, mi, gt, cod, drv>>

\* the spendable lists: slips of different transactions, none spent
SpendableLists ==
    UNION {{[k \in 1..n |-> [NewWalletSlip EXCEPT !.uuid = k, !.block_id = k,
                                                  !.amount = amounts[k]]] :
            amounts \in [1..n -> SlipAmounts]} : n \in 0..MaxSlips}

\* the staked lists: none, one or two staked slips of one transaction
StakedLists ==
    {[k \in 1..n |-> [NewWalletSlip EXCEPT !.uuid = MaxSlips + 1, !.slip_ordinal = k - 1,
                                           !.block_id = MaxSlips + 1, !.amount = 2]] :
     n \in 0..2}

InitSpend ==
    wal \in {[publickey |-> MyPublicKey, slips |-> slips, staked_slips |-> staked, n |-> 0,
              last |-> Spend("none", 0, <<>>, <<>>, <<>>, "none"), hist |-> <<>>] :
             slips \in SpendableLists, staked \in StakedLists}

SpendInit ==
    /\ InitRouting /\ InitLocksIdle /\ InitSyncIdle
    /\ pipe = <<>> /\ con = <<>> /\ mi = <<>> /\ gt = <<>> /\ cod = <<>> /\ InitSpend /\ drv = <<>>

SpendNext ==
    \/ WalletGenerateSlips
    \/ WalletCreateTransaction
    \/ WalletCreateStakingWithdrawal

SpecSpend == SpendInit /\ [][SpendNext]_vars

\* ---- claims about spending ----
\* the indices of the unspent slips of a list, in order
Unspent(list) ==
    Restrict([k \in 1..Len(list) |-> k], {k \in 1..Len(list) : ~list[k].spent})
RECURSIVE AmountOfFirst(_, _, _)
AmountOfFirst(list, idx, n) ==
    IF n = 0 THEN 0 ELSE AmountOfFirst(list, idx, n - 1) + list[idx[n]].amount
\* how many of the unspent slips are taken: the shortest prefix that sums to
\* at least the amount, all of them when none does
PrefixLength(list, amount) ==
    LET idx == Unspent(list)
        enough == {n \in 0..Len(idx) : AmountOfFirst(list, idx, n) >= amount}
    IN  IF enough = {} THEN Len(idx)
        ELSE CHOOSE n \in enough : \A m \in enough : n <= m
IsInputFor(input, slip) ==
    /\ input.uuid = slip.uuid
    /\ input.slip_ordinal = slip.slip_ordinal
    /\ input.amount = slip.amount
    /\ input.publickey = wal.publickey
\* exactly the taken slips are marked spent, and there is exactly one change
\* output: the sum of the taken slips less the amount, or 0
SpentAndChange ==
    LET pre == wal.last.pre
        idx == Unspent(pre)
        p == PrefixLength(pre, wal.last.amount)
        sum == AmountOfFirst(pre, idx, p)
    IN  /\ Len(wal.slips) = Len(pre)
        /\ \A k \in 1..Len(pre) :
              wal.slips[k] =
                 IF \E j \in 1..p : idx[j] = k THEN [pre[k] EXCEPT !.spent = TRUE]
                 ELSE pre[k]
        /\ Len(wal.last.outputs) = 1
        /\ wal.last.outputs[1].amount =
              IF sum > wal.last.amount THEN sum - wal.last.amount ELSE 0
TakenAreReturned ==
    LET pre == wal.last.pre
        idx == Unspent(pre)
        p == PrefixLength(pre, wal.last.amount)
    IN  /\ Len(wal.last.inputs) = p
        /\ \A j \in 1..p : IsInputFor(wal.last.inputs[j], pre[idx[j]])

\* C28: generate_slips(amount) returns as inputs the shortest prefix of the
\* unspent slips, in insertion order, whose amounts sum to at least amount
\* (all unspent slips when the wallet cannot cover it), marks exactly those
\* spent, and returns exactly one change output of sum(inputs) - amount when
\* the sum exceeds amount and of 0 otherwise.
C28_GreedyPrefix ==
    wal.last.op = "generate_slips" => (TakenAreReturned /\ SpentAndChange)

\* C28 amended: as C28, except that when no slip is taken (amount is 0 or no
\* slip is unspent) the inputs returned are one placeholder slip with the
\* wallet's publickey, amount 0 and an all-zero uuid.
C28_GreedyPrefixOrPlaceholder ==
    wal.last.op = "generate_slips" =>
        /\ SpentAndChange
        /\ IF PrefixLength(wal.last.pre, wal.last.amount) = 0
           THEN /\ Len(wal.last.inputs) = 1
                /\ wal.last.inputs[1].amount = 0
                /\ wal.last.inputs[1].uuid = ZeroHash
                /\ wal.last.inputs[1].publickey = wal.publickey
           ELSE TakenAreReturned

\* a second call that skips the slip spent by the first and takes the next
\* two, which meet the amount exactly
C28_Witness ==
    /\ wal.last.op = "generate_slips"
    /\ wal.n = 2
    /\ Len(wal.last.pre) = MaxSlips
    /\ wal.last.pre[1].spent
    /\ Len(wal.last.inputs) = 2
    /\ wal.last.inputs[1].amount + wal.last.inputs[2].amount = wal.last.amount
    /\ wal.last.inputs[1].uuid = 2

\* C29: create_transaction_with_default_fees fails with InsufficientFunds
\* when the wallet is insolvent, rather than returning an empty transaction.
C29_InsolventFails ==
    (/\ wal.last.op = "create_transaction"
     /\ GetAvailableBalance([slips |-> wal.last.pre]) = 0)
        => wal.last.result = "InsufficientFunds"

\* the calls of wal.hist made by an operation
CallsOf(op) == {i \in 1..Len(wal.hist) : wal.hist[i].op = op}
Takes(call, uuid, slip_ordinal) ==
    \E k \in 1..Len(call.inputs) :
        call.inputs[k].uuid = uuid /\ call.inputs[k].slip_ordinal = slip_ordinal
RECURSIVE SumOfAmounts(_)
SumOfAmounts(slips) ==
    IF slips = <<>> THEN 0 ELSE slips[1].amount + SumOfAmounts(Tail(slips))

\* C37: across a sequence of create_staking_withdrawal_transaction calls no
\* two returned transactions have an input with the same (uuid,
\* slip_ordinal).
C37_StakedSlipWithdrawnOnce ==
    \A i, j \in CallsOf("create_staking_withdrawal") :
        i # j => \A k \in 1..Len(wal.hist[i].inputs) :
                    ~Takes(wal.hist[j], wal.hist[i].inputs[k].uuid,
                           wal.hist[i].inputs[k].slip_ordinal)

\* C38: across a sequence of generate_slips calls every wallet slip is among
\* the returned inputs of at most one call, and the available balance
\* decreases at each call by exactly the sum of the amounts of the inputs the
\* call returned.
C38_NoSlipSelectedTwice ==
    /\ \A k \in 1..Len(wal.slips) :
          Cardinality({i \in CallsOf("generate_slips") :
                         Takes(wal.hist[i], wal.slips[k].uuid,
                               wal.slips[k].slip_ordinal)}) <= 1
    /\ \A i \in CallsOf("generate_slips") :
          /\ wal.hist[i].after = wal.hist[i].before - SumOfAmounts(wal.hist[i].inputs)
          /\ wal.hist[i].after <= wal.hist[i].before

\* two calls, each taking a slip with an amount, the second after the first
C38_Witness ==
    /\ Len(wal.hist) = 2
    /\ CallsOf("generate_slips") = {1, 2}
    /\ wal.hist[1].inputs[1].uuid = 1 /\ wal.hist[1].inputs[1].amount > 0
    /\ wal.hist[2].inputs[1].uuid = 2 /\ wal.hist[2].inputs[1].amount > 0
    /\ wal.hist[2].after < wal.hist[2].before
    /\ wal.hist[2].before < wal.hist[1].before

(***************************************************************************)
(* SpecDriver: saitowasm's process_timer_event, the driver pumping the     *)
(* three processors, one action per driver tick.                           *)
(*   drv.in_blockchain, drv.in_mempool, drv.in_miner                       *)
(*              the events queued in receiver_in_blockchain (RoutingEvent),*)
(*              receiver_in_mempool (ConsensusEvent) and receiver_in_miner *)
(*              (MiningEvent)                                              *)
(*   drv.miner  the MiningEventProcessor's timer, flag, target, difficulty *)
(*   drv.n      the ticks made                                             *)
(*   drv.last   the last tick: its argument, how it ended, the Duration it *)
(*              built and the processor calls that ran, in order           *)
(***************************************************************************)
MaxDriverTicks == 3
MaxPending == 2

\* the tick arguments, in milliseconds
TickMillis == {0, 1, 100, 150, 4294, 4295, 5000}

\* `1_000_000 * duration as u32` is a u32 product: it overflows when
\* 1_000_000 * duration >= 2^32, that is 15625 * duration >= 2^26
Overflows(millis) == 15625 * millis >= 2^26

\* the u32 product modulo 2^32, divided by 64: 1_000_000 = 64 * 15625
WrappedNanos64(millis) == (15625 * millis) % 2^26

\* Duration::new(0, nanos) for the wrapped product nanos = 64 * r: whole
\* microseconds and the nanoseconds left over
DurationOf(r) == [micros |-> (8 * r) \div 125, nanos |-> 8 * ((8 * r) % 125)]

\* `Duration::new(0, 1_000_000 * duration as u32)`: the product panics on
\* overflow in a build with overflow checks and wraps in one without
TickDuration(millis) ==
    IF Overflows(millis)
    THEN {[panic |-> TRUE, duration |-> DurationOf(0)],
          [panic |-> FALSE, duration |-> DurationOf(WrappedNanos64(millis))]}
    ELSE {[panic |-> FALSE, duration |-> DurationOf(WrappedNanos64(millis))]}

\* `receiver.try_recv()` followed by process_event when an event was queued
TryRecv(queued) == IF queued > 0 THEN queued - 1 ELSE queued
Sent(queued, sends) == IF sends /\ queued < MaxPending THEN queued + 1 ELSE queued

\* the calls of one processor in a tick: process_event if an event was
\* queued, then process_timer_event
CallsFor(processor, queued) ==
    (IF queued > 0 THEN <<<<processor, "process_event">>>> ELSE <<>>)
        \o <<<<processor, "process_timer_event">>>>

\* `saito.mining_event_processor.process_timer_event(duration.clone());`
\* the future is built and dropped without an await: the body of
\* MinerController::process_timer_event does not run
MiningCallsFor(queued) ==
    IF queued > 0 THEN <<<<"Mining", "process_event">>>> ELSE <<>>

NewDriverMiner ==
    [miner_timer |-> 0, new_miner_event_received |-> FALSE,
     target |-> ZeroHash, difficulty |-> 0]

\* process_timer_event(duration): fetched tells whether the Routing
\* processor's handlers send a BlockFetched, added whether the Consensus
\* processor's handlers add a block to the longest chain
\* (LongestChainBlockAdded with hash and difficulty), routed whether a
\* holder of sender_to_blockchain sends a RoutingEvent
ProcessTimerEvent(d, millis, made, fetched, added, routed, hash, difficulty) ==
    IF made.panic
    THEN [d EXCEPT !.n = @ + 1,
                   !.last = [millis |-> millis, outcome |-> "panic",
                             duration |-> made.duration, calls |-> <<>>]]
    ELSE LET in_mempool == Sent(d.in_mempool, fetched)
             in_miner == Sent(d.in_miner, added)
         IN  [d EXCEPT
                !.in_blockchain = Sent(TryRecv(@), routed),
                !.in_mempool = TryRecv(in_mempool),
                !.in_miner = TryRecv(in_miner),
                !.miner = IF in_miner > 0
                          THEN OnLongestChainBlockAdded(@, hash, difficulty)
                          ELSE @,
                !.n = @ + 1,
                !.last = [millis |-> millis, outcome |-> "ran",
                          duration |-> made.duration,
                          calls |-> CallsFor("Routing", d.in_blockchain)
                                      \o CallsFor("Consensus", in_mempool)
                                      \o MiningCallsFor(in_miner)]]

DriverTick ==
    /\ drv.n < MaxDriverTicks
    /\ \E millis \in TickMillis, fetched, added, routed \in BOOLEAN,
          hash \in 1..MaxHash, difficulty \in MinerDifficulties :
          \E made \in TickDuration(millis) :
             drv' = ProcessTimerEvent(drv, millis, made, fetched, added, routed,
                                      hash, difficulty)
    /\ UNCHANGED <<routingVars, lockVars, sy, pipe, con, mi, gt, cod, wal>>

InitDriver ==
    drv = [in_blockchain |-> 0, in_mempool |-> 0, in_miner |-> 0,
           miner |-> NewDriverMiner, n |-> 0,
           last |-> [millis |-> 0, outcome |-> "none",
                     duration |-> DurationOf(0), calls |-> <<>>]]

DriverInit ==
    /\ InitRouting /\ InitLocksIdle /\ InitSyncIdle
    /\ pipe = <<>> /\ con = <<>> /\ mi = <<>> /\ gt = <<>> /\ cod = <<>> /\ wal = <<>>
    /\ InitDriver

DriverNext == DriverTick

SpecDriver == DriverInit /\ [][DriverNext]_vars

\* C31: on every driver tick each processor, in the order Routing,
\* Consensus, Mining, handles at most one queued event and then runs its
\* timer tick; the Mining processor's timer tick runs on every tick.
C31_EveryProcessorTicks ==
    drv.last.outcome = "ran" =>
        LET calls == drv.last.calls
            ticks == {i \in 1..Len(calls) : calls[i][2] = "process_timer_event"}
        IN  /\ \A P \in {"Routing", "Consensus", "Mining"} :
                  /\ \E i \in ticks : calls[i][1] = P
                  /\ Cardinality({i \in 1..Len(calls) :
                                     calls[i] = <<P, "process_event">>}) <= 1
            /\ calls[Len(calls)] = <<"Mining", "process_timer_event">>

\* C40: the Duration handed to the processors is the tick argument in
\* milliseconds times 1000 microseconds, for every tick argument.
C40_DurationWithoutLoss ==
    drv.n > 0 =>
        /\ drv.last.outcome = "ran"
        /\ drv.last.duration = [micros |-> 1000 * drv.last.millis, nanos |-> 0]

====
